---- MODULE Spec2Model ----
(***************************************************************************)
(* A model of the motor-technician assistant: the ledger store             *)
(* (database.py), the orchestrator with its UI, voice, demo-data and       *)
(* worker threads (app.py), and the worker's reply (llm_worker.py).        *)
(***************************************************************************)
EXTENDS Integers, Sequences, FiniteSets, TLC

(***************************************************************************)
(* Bounds of the model.                                                    *)
(***************************************************************************)
\* rows a store-level run may hold before inserts are no longer offered
MaxRows == 3
\* last calendar day the clock may reach (the first day is 1, rows of day 0
\* are rows of an earlier session)
MaxDay == 2
\* utterances the user submits in one run (typed or spoken)
MaxRequests == 2
\* times the demo-data button is pressed in one run
MaxDemo == 1

(***************************************************************************)
(* Values.                                                                 *)
(***************************************************************************)
\* Python's None, and an absent dictionary key read with .get()
NULL == "NULL"

\* customer names, in the collation order of the store
CustomerOrder == <<"Ram", "Sharma Ji">>

\* str.lower() on the type strings the model uses
Lower(s) ==
    CASE s = "Income" -> "income"
      [] s = "Expense" -> "expense"
      [] OTHER -> s

\* A transaction payload. amount_paise 0 stands for both a missing amount and
\* the amount 0: every test of the code (`not payload.get('amount_paise')`)
\* treats the two alike. type NULL is a missing type.  amount_is_int tells a
\* Python int from a float: when it is FALSE the amount is amount_paise + 0.5.
Payload(t, a, c, d) ==
    [present |-> TRUE, type |-> t, amount_paise |-> a, amount_is_int |-> TRUE,
     customer |-> c, details |-> d]

\* a payload whose amount is the float a + 0.5 (json.loads of "100.5")
FractionalPayload(t, a, c, d) == [Payload(t, a, c, d) EXCEPT !.amount_is_int = FALSE]

\* a payload that is None or {} (falsy in `if payload:`)
NoPayload ==
    [present |-> FALSE, type |-> NULL, amount_paise |-> 0, amount_is_int |-> TRUE,
     customer |-> NULL, details |-> NULL]

(***************************************************************************)
(* The ledger store.  A database value D is the committed content of the   *)
(* file: the transactions table in id order, the AUTOINCREMENT counter and *)
(* the business_insights table (one record per insight_date).              *)
(***************************************************************************)
Row(i, t, a, c, d, day) ==
    [id |-> i, type |-> t, amount_paise |-> a, customer_name |-> c, details |-> d, day |-> day]

RECURSIVE SumWhere(_, _, _)
\* SUM(CASE WHEN type = ty THEN amount_paise ELSE 0 END) ... WHERE DATE(timestamp) = day
SumWhere(rows, ty, day) ==
    IF rows = <<>> THEN 0
    ELSE (IF Head(rows).type = ty /\ Head(rows).day = day THEN Head(rows).amount_paise ELSE 0)
         + SumWhere(Tail(rows), ty, day)

RECURSIVE CountDay(_, _)
\* COUNT(*) ... WHERE DATE(timestamp) = day
CountDay(rows, day) ==
    IF rows = <<>> THEN 0
    ELSE (IF Head(rows).day = day THEN 1 ELSE 0) + CountDay(Tail(rows), day)

RECURSIVE CustomerIncome(_, _, _)
\* SUM(amount_paise) of one customer's income rows of the day
CustomerIncome(rows, c, day) ==
    IF rows = <<>> THEN 0
    ELSE (IF Head(rows).type = "income" /\ Head(rows).day = day /\ Head(rows).customer_name = c
             THEN Head(rows).amount_paise ELSE 0)
         + CustomerIncome(Tail(rows), c, day)

\* customers with an income row on the day (the groups of GROUP BY customer_name)
IncomeCustomers(rows, day) ==
    {i \in 1..Len(CustomerOrder) :
        \E k \in 1..Len(rows) :
            /\ rows[k].type = "income"
            /\ rows[k].day = day
            /\ rows[k].customer_name = CustomerOrder[i]}

\* GROUP BY customer_name ORDER BY total DESC LIMIT 1: the group of greatest
\* total; among equal totals the engine returns the last group in collation order.
TopCustomer(rows, day) ==
    LET G == IncomeCustomers(rows, day)
        Best == {i \in G : \A j \in G :
                    \/ CustomerIncome(rows, CustomerOrder[j], day) < CustomerIncome(rows, CustomerOrder[i], day)
                    \/ (CustomerIncome(rows, CustomerOrder[j], day) = CustomerIncome(rows, CustomerOrder[i], day) /\ j <= i)}
    IN IF G = {} THEN NULL ELSE CustomerOrder[CHOOSE i \in Best : TRUE]

\* the record update_daily_insights computes for a day from a table
InsightOf(rows, day) ==
    [insight_date |-> day,
     total_income_paise |-> SumWhere(rows, "income", day),
     total_expense_paise |-> SumWhere(rows, "expense", day),
     transaction_count |-> CountDay(rows, day),
     top_customer |-> TopCustomer(rows, day)]

\* a plain INSERT, or a table without UNIQUE(insight_date)
AddInsight(insights, rec) == insights \cup {rec}

\* INSERT OR REPLACE under UNIQUE(insight_date)
ReplaceInsight(insights, rec) ==
    {r \in insights : r.insight_date # rec.insight_date} \cup {rec}

\* What the store does on one attempt of a call, chosen by the environment:
\*   none            no other connection is in the way
\*   lock_write      the call's own INSERT/UPDATE/DELETE finds the database locked
\*   lock_recompute  the write of update_daily_insights finds the database locked
Faults == {"none", "lock_write", "lock_recompute"}

\* update_daily_insights() opens a connection of its own.  Its SELECTs read the
\* committed table D.rows; its INSERT OR REPLACE needs the write lock, which
\* it cannot get while the caller's connection holds an open write
\* transaction (callerTxnOpen) or while another writer does (fault).
update_daily_insights(D, callerTxnOpen, fault, day) ==
    IF callerTxnOpen \/ fault = "lock_recompute"
    THEN [ok |-> FALSE, db |-> D]
    ELSE [ok |-> TRUE,
          db |-> [D EXCEPT !.insights = ReplaceInsight(@, InsightOf(D.rows, day))]]

\* update_daily_insights() called after the commit in all three operations
RecomputeAfterCommit(op) == FALSE

\* update_transaction and delete_todays_transactions call
\* update_daily_insights() inside `with get_db_connection() as conn`, before
\* the block's exit commits; add_transaction calls it after conn.commit().
RecomputeInsideTransaction(op) == op \in {"update", "delete"}

\* the CHECK and NOT NULL constraints of the transactions table
SchemaAccepts(t, a) == t \in {"income", "expense"} /\ a > 0

\* for attempt in range(3)
RetryRange == 3

\* the result of a store call: err is "none", "locked" (OperationalError),
\* "value" (ValueError), "integrity" (IntegrityError) or "attribute"
\* (AttributeError); value is the id, the count or the boolean (1/0) returned;
\* attempts counts the turns of the retry loop; recomputes counts the calls of
\* update_daily_insights and uncommitted those of them made while the call's
\* own write was not yet committed.
CallResult(ok, err, value, attempts, D) ==
    [ok |-> ok, err |-> err, value |-> value, attempts |-> attempts, db |-> D,
     recomputes |-> 0, uncommitted |-> 0]

\* a result with one more call of update_daily_insights counted
Recomputed(res, insideTxn) ==
    [res EXCEPT !.recomputes = @ + 1, !.uncommitted = @ + (IF insideTxn THEN 1 ELSE 0)]

\* the id handed out again instead of a new one
LastAssignedId(D) == D.seq

\* id INTEGER PRIMARY KEY AUTOINCREMENT: one more than the largest id the
\* table ever held (sqlite_sequence), cursor.lastrowid of the INSERT
NextId(D) == D.seq + 1

RECURSIVE add_transaction_from(_, _, _, _, _)
\* add_transaction from attempt number `attempt` (0-based) on
add_transaction_from(D, p, sched, day, attempt) ==
    LET fault == sched[attempt + 1]
        id == NextId(D)
        D1 == [D EXCEPT !.rows = Append(@, Row(id, Lower(p.type), p.amount_paise,
                                                p.customer, p.details, day)),
                        !.seq = id]
        rec == update_daily_insights(D1, RecomputeInsideTransaction("insert"), fault, day)
    IN IF p.type = NULL \/ p.amount_paise = 0
       THEN CallResult(FALSE, "value", 0, attempt + 1, D)
       ELSE IF fault = "lock_write"
       THEN IF attempt < RetryRange - 1
            THEN add_transaction_from(D, p, sched, day, attempt + 1)
            ELSE CallResult(FALSE, "locked", 0, attempt + 1, D)
       ELSE IF ~SchemaAccepts(Lower(p.type), p.amount_paise)
       THEN CallResult(FALSE, "integrity", 0, attempt + 1, D)
       ELSE IF rec.ok
       THEN Recomputed(CallResult(TRUE, "none", id, attempt + 1, rec.db), FALSE)
       ELSE IF attempt < RetryRange - 1
            THEN Recomputed(add_transaction_from(D1, p, sched, day, attempt + 1), FALSE)
            ELSE Recomputed(CallResult(FALSE, "locked", 0, attempt + 1, D1), FALSE)

\* add_transaction with `except Exception` in place of `except
\* sqlite3.OperationalError`: every error is retried up to the last attempt
add_transaction_retrying_all(D, p, sched, day) ==
    LET res == add_transaction_from(D, p, sched, day, 0)
    IN IF res.err \in {"value", "integrity"}
       THEN [res EXCEPT !.attempts = RetryRange]
       ELSE res

add_transaction(D, p, sched, day) == add_transaction_from(D, p, sched, day, 0)


\* the rows of `rows` with the row of id `tid` rewritten: SET type = ?,
\* amount_paise = ?, customer_name = ?, details = ? WHERE id = ?
RewriteRow(rows, tid, p) ==
    [k \in 1..Len(rows) |->
        IF rows[k].id = tid
        THEN [rows[k] EXCEPT !.type = Lower(p.type), !.amount_paise = p.amount_paise,
                             !.customer_name = p.customer, !.details = p.details]
        ELSE rows[k]]

\* cursor.rowcount of the UPDATE
RowsWithId(rows, tid) == Cardinality({k \in 1..Len(rows) : rows[k].id = tid})

RECURSIVE update_transaction_from(_, _, _, _, _, _)
\* update_transaction from attempt number `attempt` on.  The UPDATE runs in the
\* connection's open transaction; update_daily_insights() runs before the
\* `with` block commits it, so it reads D.rows and finds the write lock held.
update_transaction_from(D, tid, p, sched, day, attempt) ==
    LET fault == sched[attempt + 1]
        rec == update_daily_insights(D, RecomputeInsideTransaction("update"), fault, day)
    IN IF p.type = NULL
       THEN CallResult(FALSE, "attribute", 0, attempt + 1, D)
       ELSE IF fault = "lock_write"
       THEN IF attempt < RetryRange - 1
            THEN update_transaction_from(D, tid, p, sched, day, attempt + 1)
            ELSE CallResult(FALSE, "locked", 0, attempt + 1, D)
       ELSE IF RowsWithId(D.rows, tid) > 0 /\ ~SchemaAccepts(Lower(p.type), p.amount_paise)
       THEN CallResult(FALSE, "integrity", 0, attempt + 1, D)
       ELSE IF rec.ok
       THEN Recomputed(CallResult(TRUE, "none", IF RowsWithId(D.rows, tid) > 0 THEN 1 ELSE 0,
                                  attempt + 1,
                                  [rec.db EXCEPT !.rows = RewriteRow(D.rows, tid, p)]),
                       RecomputeInsideTransaction("update"))
       ELSE IF attempt < RetryRange - 1
            THEN Recomputed(update_transaction_from(D, tid, p, sched, day, attempt + 1),
                            RecomputeInsideTransaction("update"))
            ELSE Recomputed(CallResult(FALSE, "locked", 0, attempt + 1, D),
                            RecomputeInsideTransaction("update"))

\* transaction_id 0 is None
update_transaction(D, tid, p, sched, day) ==
    IF tid = 0
    THEN CallResult(TRUE, "none", 0, 0, D)
    ELSE update_transaction_from(D, tid, p, sched, day, 0)

RECURSIVE KeepOtherDays(_, _)
\* the rows DELETE ... WHERE DATE(timestamp) = day leaves
KeepOtherDays(rows, day) ==
    IF rows = <<>> THEN <<>>
    ELSE IF Head(rows).day = day THEN KeepOtherDays(Tail(rows), day)
    ELSE <<Head(rows)>> \o KeepOtherDays(Tail(rows), day)

RECURSIVE delete_todays_transactions_from(_, _, _, _)
\* delete_todays_transactions from attempt number `attempt` on; as in
\* update_transaction the recompute runs inside the open transaction.
delete_todays_transactions_from(D, sched, day, attempt) ==
    LET fault == sched[attempt + 1]
        rec == update_daily_insights(D, RecomputeInsideTransaction("delete"), fault, day)
    IN IF fault = "lock_write"
       THEN IF attempt < RetryRange - 1
            THEN delete_todays_transactions_from(D, sched, day, attempt + 1)
            ELSE CallResult(FALSE, "locked", 0, attempt + 1, D)
       ELSE IF rec.ok
       THEN Recomputed(CallResult(TRUE, "none", CountDay(D.rows, day), attempt + 1,
                                  [rec.db EXCEPT !.rows = KeepOtherDays(D.rows, day)]),
                       RecomputeInsideTransaction("delete"))
       ELSE IF attempt < RetryRange - 1
            THEN Recomputed(delete_todays_transactions_from(D, sched, day, attempt + 1),
                            RecomputeInsideTransaction("delete"))
            ELSE Recomputed(CallResult(FALSE, "locked", 0, attempt + 1, D),
                            RecomputeInsideTransaction("delete"))

delete_todays_transactions(D, sched, day) == delete_todays_transactions_from(D, sched, day, 0)

\* the SELECT with ORDER BY id ASC: the oldest row
get_first_transaction(D) ==
    IF D.rows = <<>> THEN <<>> ELSE <<D.rows[1]>>

\* SELECT ... ORDER BY id DESC LIMIT 1; the empty sequence is None
get_last_transaction(D) ==
    IF D.rows = <<>> THEN <<>> ELSE <<D.rows[Len(D.rows)]>>

\* len() of the strings the model uses
StrLen(s) ==
    CASE s = "LONG_CUSTOMER" -> 101
      [] s = "LONG_DETAILS" -> 501
      [] s = "CUSTOMER_100" -> 100
      [] s = "DETAILS_500" -> 500
      [] s = NULL -> 0
      [] OTHER -> 10

\* validate_transaction_data: <<is_valid, message>>
validate_transaction_data(p) ==
    IF p.type = NULL THEN <<FALSE, "Transaction type is required">>
    ELSE IF Lower(p.type) \notin {"income", "expense"}
    THEN <<FALSE, "Transaction type must be 'income' or 'expense'">>
    ELSE IF \/ (p.amount_is_int /\ p.amount_paise = 0)
            \/ (IF p.amount_is_int THEN p.amount_paise <= 0 ELSE p.amount_paise < 0)
    THEN <<FALSE, "Amount must be greater than 0">>
    ELSE IF p.customer # NULL /\ StrLen(p.customer) > 100
    THEN <<FALSE, "Customer name too long (max 100 characters)">>
    ELSE IF p.details # NULL /\ StrLen(p.details) > 500
    THEN <<FALSE, "Details too long (max 500 characters)">>
    ELSE <<TRUE, "Valid">>

\* A date_from / date_to key that is absent
NoDate == 0 - 1

\* A query filter, the dict passed to query_transactions: a key the code finds
\* falsy (absent, None, '' or 0) is NULL for a string, 0 for an amount or the
\* limit and NoDate for a date
FilterOf(c, k, t, lo, hi, from, to, n) ==
    [present |-> TRUE, customer_name |-> c, details_keyword |-> k, type |-> t,
     min_amount_paise |-> lo, max_amount_paise |-> hi,
     date_from |-> from, date_to |-> to, limit |-> n]
Filter(c) == FilterOf(c, NULL, NULL, 0, 0, NoDate, NoDate, 0)
NoFilter == [FilterOf(NULL, NULL, NULL, 0, 0, NoDate, NoDate, 0) EXCEPT !.present = FALSE]

\* The characters of the strings the queries search and search for; any other
\* string is one opaque character
Chars(s) ==
    CASE s = "Ram" -> <<"R", "a", "m">>
      [] s = "ram" -> <<"r", "a", "m">>
      [] s = "RAM" -> <<"R", "A", "M">>
      [] s = "Ram Traders" -> <<"R", "a", "m", " ", "T", "r", "a", "d", "e", "r", "s">>
      [] s = "Sharma Ji" -> <<"S", "h", "a", "r", "m", "a", " ", "J", "i">>
      [] s = "sharma" -> <<"s", "h", "a", "r", "m", "a">>
      [] s = "motor repair" -> <<"m", "o", "t", "o", "r", " ", "r", "e", "p", "a", "i", "r">>
      [] s = "Motor rewinding" ->
             <<"M", "o", "t", "o", "r", " ", "r", "e", "w", "i", "n", "d", "i", "n", "g">>
      [] s = "Copper wire purchase" ->
             <<"C", "o", "p", "p", "e", "r", " ", "w", "i", "r", "e", " ",
               "p", "u", "r", "c", "h", "a", "s", "e">>
      [] s = "MOTOR" -> <<"M", "O", "T", "O", "R">>
      [] s = "wire" -> <<"w", "i", "r", "e">>
      [] s = "hello" -> <<"h", "e", "l", "l", "o">>
      [] s = "hi" -> <<"h", "i">>
      [] s = "namaste" -> <<"n", "a", "m", "a", "s", "t", "e">>
      [] s = "good morning" -> <<"g", "o", "o", "d", " ", "m", "o", "r", "n", "i", "n", "g">>
      [] s = "help" -> <<"h", "e", "l", "p">>
      [] s = "what" -> <<"w", "h", "a", "t">>
      [] s = "how" -> <<"h", "o", "w">>
      [] s = "Hello there" -> <<"H", "e", "l", "l", "o", " ", "t", "h", "e", "r", "e">>
      [] s = "Plants make sugar" ->
             <<"P", "l", "a", "n", "t", "s", " ", "m", "a", "k", "e", " ", "s", "u", "g", "a", "r">>
      [] OTHER -> <<s>>

UpperCase ==
    <<"A", "B", "C", "D", "E", "F", "G", "H", "I", "J", "K", "L", "M",
      "N", "O", "P", "Q", "R", "S", "T", "U", "V", "W", "X", "Y", "Z">>
LowerCase ==
    <<"a", "b", "c", "d", "e", "f", "g", "h", "i", "j", "k", "l", "m",
      "n", "o", "p", "q", "r", "s", "t", "u", "v", "w", "x", "y", "z">>

\* SQL LOWER(): the ASCII capitals are folded, every other character is kept
LowerChars(s) ==
    [i \in 1..Len(s) |->
        IF \E k \in 1..Len(UpperCase) : UpperCase[k] = s[i]
        THEN LowerCase[CHOOSE k \in 1..Len(UpperCase) : UpperCase[k] = s[i]]
        ELSE s[i]]

\* x LIKE '%needle%' on folded characters: needle occurs at some offset of x
LikePattern(x, needle) ==
    \E off \in 0..(Len(x) - Len(needle)) :
        \A j \in 1..Len(needle) : x[off + j] = needle[j]

\* the comparison column = needle in place of the LIKE pattern
LikeExact(name, needle) ==
    /\ name # NULL
    /\ Chars(name) = Chars(needle)

\* LOWER(column) LIKE LOWER('%needle%'); a NULL column matches nothing
LikeLower(name, needle) ==
    /\ name # NULL
    /\ LikePattern(LowerChars(Chars(name)), LowerChars(Chars(needle)))

RECURSIVE Reverse(_)
Reverse(s) == IF s = <<>> THEN <<>> ELSE Reverse(Tail(s)) \o <<Head(s)>>

\* The WHERE clause query_transactions builds: one condition per truthy key
WhereClause(r, f) ==
    /\ f.customer_name # NULL => LikeLower(r.customer_name, f.customer_name)
    /\ f.details_keyword # NULL => LikeLower(r.details, f.details_keyword)
    /\ f.type # NULL => r.type = Lower(f.type)
    /\ f.min_amount_paise # 0 => r.amount_paise >= f.min_amount_paise
    /\ f.max_amount_paise # 0 => r.amount_paise <= f.max_amount_paise
    /\ f.date_from # NoDate => r.day >= f.date_from
    /\ f.date_to # NoDate => r.day <= f.date_to

RECURSIVE SelectRows(_, _)
SelectRows(rows, f) ==
    IF rows = <<>> THEN <<>>
    ELSE (IF WhereClause(Head(rows), f) THEN <<Head(rows)>> ELSE <<>>)
         \o SelectRows(Tail(rows), f)

\* LIMIT n of a result
LimitRows(s, n) == SubSeq(s, 1, IF n < Len(s) THEN n ELSE Len(s))

\* the matching rows ORDER BY timestamp ASC
query_oldest_first(D, f) ==
    IF f.limit # 0 THEN LimitRows(SelectRows(D.rows, f), f.limit)
    ELSE SelectRows(D.rows, f)

\* query_transactions: the matching rows, ORDER BY timestamp DESC (timestamps
\* grow with the id: rows is in insertion order), LIMIT int(filters['limit'])
query_transactions(D, f) ==
    IF f.limit # 0 THEN LimitRows(Reverse(SelectRows(D.rows, f)), f.limit)
    ELSE Reverse(SelectRows(D.rows, f))

\* WHERE DATE(timestamp) = date.today()
RECURSIVE RowsOfDay(_, _)
RowsOfDay(rows, day) ==
    IF rows = <<>> THEN <<>>
    ELSE (IF Head(rows).day = day THEN <<Head(rows)>> ELSE <<>>) \o RowsOfDay(Tail(rows), day)

\* get_today_transactions: today's rows, ORDER BY timestamp DESC
get_today_transactions(D, day) == Reverse(RowsOfDay(D.rows, day))

\* get_all_transactions: every row, ORDER BY timestamp DESC
get_all_transactions(D) == Reverse(D.rows)


(***************************************************************************)
(* The program's state.                                                    *)
(***************************************************************************)
VARIABLES
    db,                    \* the database file: [rows, seq, insights]
    today,                 \* date.today()
    last_call,             \* the last direct store call and its result
    conversation_history,  \* self.conversation_history
    last_transaction_id,   \* self.last_transaction_id (0 is None)
    is_processing,         \* self.is_processing
    is_edit_mode,          \* self.is_edit_mode
    buttons_enabled,       \* the state disable_buttons / enable_buttons set
    db_lock,               \* holder of self.db_lock: "free", "ui" or "demo"
    ui_pc,                 \* the UI thread: "mainloop", or "blocked" in an acquire of db_lock
    ui_queue,              \* callbacks posted with self.after(0, handle_llm_response, ...)
    inflight,              \* the _run_llm_parser threads that are running
    voice,                 \* the listen_and_process_voice thread
    demo,                  \* the insert_demo_transactions threads, one per press
    submitted              \* utterances submitted so far

vars == <<db, today, last_call, conversation_history, last_transaction_id, is_processing,
          is_edit_mode, buttons_enabled, db_lock, ui_pc, ui_queue, inflight, voice, demo,
          submitted>>

storeVars == <<db, today, last_call>>

appVars == <<conversation_history, last_transaction_id, is_processing, is_edit_mode,
             buttons_enabled, db_lock, ui_pc, ui_queue, inflight, voice, demo, submitted>>

\* init_db on a new file
EmptyDB == [rows |-> <<>>, seq |-> 0, insights |-> {}]

\* a file left by earlier sessions: a row of an earlier day and a row of day 1
UsedDB ==
    LET rows == <<Row(1, "income", 50000, "Ram", "motor repair", 0),
                  Row(2, "expense", 5000, NULL, "Copper wire purchase", 1)>>
    IN [rows |-> rows, seq |-> 2, insights |-> {InsightOf(rows, 0), InsightOf(rows, 1)}]

InitialLedgers == {EmptyDB, UsedDB}

\* A schedule of faults, one per attempt: the database is found locked at the
\* same statement on the first k attempts and on none after them.
SchedLen == 4
FaultRun(kind, k) == [i \in 1..SchedLen |-> IF i <= k THEN kind ELSE "none"]
NoFaults == FaultRun("none", 0)
Schedules == {FaultRun(kind, k) : kind \in Faults \ {"none"}, k \in 0..SchedLen}

\* the number of leading attempts of a schedule that find the database locked
LeadingLocks(sched) ==
    Cardinality({i \in 1..SchedLen : \A j \in 1..i : sched[j] # "none"})

\* the outcome of a store call, without the database it leaves
Outcome(res) ==
    [ok |-> res.ok, err |-> res.err, value |-> res.value, attempts |-> res.attempts,
     recomputes |-> res.recomputes, uncommitted |-> res.uncommitted]

NoCall ==
    [op |-> "none", tid |-> 0, payload |-> NoPayload, sched |-> NoFaults,
     res |-> Outcome(CallResult(TRUE, "none", 0, 0, EmptyDB))]

\* a Command, as the worker returns it: {"intent": ..., "payload": ...}
Command(intent, p, f) == [intent |-> intent, payload |-> p, filter |-> f]

\* a history entry; the assistant's content is json.dumps(response_data)
UserTurn(msg) == [role |-> "user", msg |-> msg, response |-> Command("", NoPayload, NoFilter)]
AssistantTurn(resp) == [role |-> "assistant", msg |-> 0, response |-> resp]

\* conversation_history when the run starts: a new session, or a session in
\* which three utterances (numbered -2, -1 and 0) were answered before
EarlierHistories ==
    {<<>>,
     <<UserTurn(0 - 2), AssistantTurn(Command("greeting", NoPayload, NoFilter)),
       UserTurn(0 - 1), AssistantTurn(Command("answer", NoPayload, NoFilter)),
       UserTurn(0), AssistantTurn(Command("greeting", NoPayload, NoFilter))>>}

\* EnhancedAssistantApp.__init__ over a database file of earlier sessions; the
\* run starts there, or after the first three exchanges of the session
Init ==
    /\ db \in InitialLedgers
    /\ today = 1
    /\ last_call = NoCall
    /\ conversation_history \in EarlierHistories
    /\ last_transaction_id = 0
    /\ is_processing = FALSE
    /\ is_edit_mode = FALSE
    /\ buttons_enabled = TRUE
    /\ db_lock = "free"
    /\ ui_pc = "mainloop"
    /\ ui_queue = <<>>
    /\ inflight = {}
    /\ voice = [pc |-> "none", msg |-> 0]
    /\ demo = <<>>
    /\ submitted = 0

(***************************************************************************)
(* Direct calls of the store, with the environment choosing on which       *)
(* attempts the database is locked.                                        *)
(***************************************************************************)
StorePayloads ==
    {Payload("income", 50000, "Ram", "motor repair"),
     Payload("expense", 5000, NULL, "Copper wire purchase"),
     Payload(NULL, 60000, NULL, NULL),
     Payload("income", 0, "Ram", NULL),
     Payload("expense", 5000, "LONG_CUSTOMER", "Copper wire purchase")}

UpdatePayloads ==
    {Payload("income", 60000, NULL, NULL),
     Payload(NULL, 60000, NULL, NULL)}

Record(op, tid, p, sched, res) ==
    [op |-> op, tid |-> tid, payload |-> p, sched |-> sched, res |-> Outcome(res)]

CallInsert(p, sched) ==
    /\ Len(db.rows) < MaxRows
    /\ LET res == add_transaction(db, p, sched, today)
       IN /\ db' = res.db
          /\ last_call' = Record("insert", 0, p, sched, res)
    /\ UNCHANGED <<today, appVars>>

CallUpdate(tid, p, sched) ==
    /\ LET res == update_transaction(db, tid, p, sched, today)
       IN /\ db' = res.db
          /\ last_call' = Record("update", tid, p, sched, res)
    /\ UNCHANGED <<today, appVars>>

CallDelete(sched) ==
    /\ LET res == delete_todays_transactions(db, sched, today)
       IN /\ db' = res.db
          /\ last_call' = Record("delete", 0, NoPayload, sched, res)
    /\ UNCHANGED <<today, appVars>>

\* update_daily_insights() called on its own.  `run` is 2 when the call before
\* it was a successful update_daily_insights() of the same day, so that no
\* ledger change lies between the two.
CallRecompute(fault) ==
    /\ LET rec == update_daily_insights(db, FALSE, fault, today)
           again == last_call.op = "recompute" /\ last_call.res.ok /\ last_call.day = today
       IN /\ db' = rec.db
          /\ last_call' = [op |-> "recompute", day |-> today, fault |-> fault,
                           res |-> [ok |-> rec.ok,
                                    run |-> IF ~rec.ok THEN 0 ELSE IF again THEN 2 ELSE 1]]
    /\ UNCHANGED <<today, appVars>>

\* the calendar date changes
Midnight ==
    /\ today < MaxDay
    /\ today' = today + 1
    /\ UNCHANGED <<db, last_call, appVars>>

StoreNext ==
    \/ \E p \in StorePayloads, sched \in Schedules : CallInsert(p, sched)
    \/ \E tid \in 0..MaxRows, p \in UpdatePayloads, sched \in Schedules : CallUpdate(tid, p, sched)
    \/ \E sched \in Schedules : CallDelete(sched)
    \/ \E fault \in {"none", "lock_recompute"} : CallRecompute(fault)
    \/ Midnight

\* the store specification starts in a new session
StoreInit == Init /\ conversation_history = <<>>

\* Single calls of insert, update and deleteScope with payloads the store
\* refuses: a missing type, a missing amount, a type and an amount the CHECK
\* constraints of the table reject; and one it accepts
RefusedPayloads ==
    {Payload("income", 50000, "Ram", "motor repair"),
     Payload(NULL, 60000, NULL, NULL),
     Payload("income", 0, "Ram", NULL),
     Payload("refund", 5000, NULL, NULL),
     Payload("income", 0 - 100, "Ram", NULL)}

RetryNext ==
    /\ last_call = NoCall
    /\ \/ \E p \in RefusedPayloads, sched \in Schedules : CallInsert(p, sched)
       \/ \E tid \in 0..MaxRows, p \in RefusedPayloads, sched \in Schedules :
             CallUpdate(tid, p, sched)
       \/ \E sched \in Schedules : CallDelete(sched)

RetrySpec == StoreInit /\ [][RetryNext]_vars

StoreSpec == StoreInit /\ [][StoreNext]_vars

\* The read-only and pure entry points of database.py, called directly.
\* payloads handed to validate_transaction_data: every type, amount, customer
\* and details case of its tests
ValidateTypes == {"income", "expense", "refund", NULL}
ValidateAmounts == {0 - 100, 0, 1, 50000}
ValidateCustomers == {NULL, "Ram", "CUSTOMER_100", "LONG_CUSTOMER"}
ValidateDetails == {NULL, "motor repair", "DETAILS_500", "LONG_DETAILS"}
ValidatePayloads ==
    {Payload(t, a, c, d) :
        t \in ValidateTypes, a \in ValidateAmounts, c \in ValidateCustomers, d \in ValidateDetails}
    \cup {FractionalPayload(t, 100, c, d) :
        t \in ValidateTypes, c \in ValidateCustomers, d \in ValidateDetails}

CallValidate(p) ==
    /\ last_call' = [op |-> "validate", tid |-> 0, payload |-> p, sched |-> NoFaults,
                     res |-> [ok |-> validate_transaction_data(p)[1],
                              msg |-> validate_transaction_data(p)[2]]]
    /\ UNCHANGED <<db, today, appVars>>

\* A ledger of earlier sessions whose customers and details the queries search
TradersDB ==
    LET rows == <<Row(1, "income", 50000, "Ram Traders", "Motor rewinding", 0),
                  Row(2, "expense", 5000, "Sharma Ji", "Copper wire purchase", 0),
                  Row(3, "income", 5000, "Ram", "motor repair", 1)>>
    IN [rows |-> rows, seq |-> 3, insights |-> {InsightOf(rows, 0), InsightOf(rows, 1)}]

QueryLedgers == {EmptyDB, UsedDB, TradersDB}

\* filters handed to query_transactions: every key absent or given
QueryCustomers == {NULL, "ram", "RAM", "sharma"}
QueryKeywords == {NULL, "MOTOR", "wire"}
QueryTypes == {NULL, "income", "expense"}
QueryAmounts == {0, 5000, 20000}
QueryDates == {NoDate} \cup (0..1)
QueryLimits == 0..2
QueryFilters ==
    {FilterOf(c, k, t, lo, hi, from, to, n) :
        c \in QueryCustomers, k \in QueryKeywords, t \in QueryTypes,
        lo \in QueryAmounts, hi \in QueryAmounts,
        from \in QueryDates, to \in QueryDates, n \in QueryLimits}

CallQuery(f) ==
    /\ last_call' = [op |-> "query", filter |-> f, res |-> [rows |-> query_transactions(db, f)]]
    /\ UNCHANGED <<db, today, appVars>>

CallGetToday ==
    /\ last_call' = [op |-> "get_today", res |-> [rows |-> get_today_transactions(db, today)]]
    /\ UNCHANGED <<db, today, appVars>>

CallGetAll ==
    /\ last_call' = [op |-> "get_all", res |-> [rows |-> get_all_transactions(db)]]
    /\ UNCHANGED <<db, today, appVars>>

CallGetLast ==
    /\ last_call' = [op |-> "get_last", res |-> [rows |-> get_last_transaction(db)]]
    /\ UNCHANGED <<db, today, appVars>>

\* These entry points change nothing, so what a call returns does not depend on
\* the calls before it: a behaviour makes one call on its ledger.
PureNext ==
    /\ last_call = NoCall
    /\ \/ \E p \in ValidatePayloads : CallValidate(p)
       \/ \E f \in QueryFilters : CallQuery(f)
       \/ CallGetToday
       \/ CallGetAll
       \/ CallGetLast

\* the application at rest over a ledger of earlier sessions
PureInit ==
    /\ db \in QueryLedgers
    /\ today = 1
    /\ last_call = NoCall
    /\ conversation_history = <<>>
    /\ last_transaction_id = 0
    /\ is_processing = FALSE
    /\ is_edit_mode = FALSE
    /\ buttons_enabled = TRUE
    /\ db_lock = "free"
    /\ ui_pc = "mainloop"
    /\ ui_queue = <<>>
    /\ inflight = {}
    /\ voice = [pc |-> "none", msg |-> 0]
    /\ demo = <<>>
    /\ submitted = 0

PureSpec == PureInit /\ [][PureNext]_vars




(***************************************************************************)
(* The worker process (llm_worker.py), run once per request.               *)
(***************************************************************************)
\* The values call_llm returns and the worker passes on, by what the code
\* looks at: a str and its text; a dict and its keys error, business_intent,
\* intent and payload (NULL for a key that is absent); a list or a number; and
\* Absent, the payload of a dict that has none.
PyValue(ty, text, error, marker, intent, payload) ==
    [ty |-> ty, text |-> text, error |-> error, business_intent |-> marker,
     intent |-> intent, payload |-> payload]
Str(text) == PyValue("str", text, NULL, NULL, NULL, NULL)
Dict(error, marker, intent, payload) == PyValue("dict", NULL, error, marker, intent, payload)
NonObject(ty) == PyValue(ty, NULL, NULL, NULL, NULL, NULL)
Absent == NonObject("absent")
ErrorDict(msg) == Dict(msg, NULL, NULL, NULL)

\* d.get("error") is truthy
HasError(v) == v.ty = "dict" /\ v.error # NULL /\ v.error # ""

\* What client.chat does in one call: it raises ("raise": timeout, connection
\* refused), or it returns a content that is
\*   "text"    plain text,
\*   "object"  the JSON text of the object obj,
\*   "broken"  text from '{' to '}' that is not JSON,
\*   "array", "number"  JSON that is not an object.
Reply(kind, text, obj) == [kind |-> kind, text |-> text, obj |-> obj]
Raises == Reply("raise", NULL, Absent)
TextReply(text) == Reply("text", text, Absent)
ObjectReply(obj) == Reply("object", "JSON_OBJECT", obj)

\* call_llm: the value returned and the lines it printed on stdout
LlmResult(value, printed) == [value |-> value, printed |-> printed]

\* lines 153-161: json.loads where JSON is expected or the content runs from
\* '{' to '}'
parse_content(reply, expect_json) ==
    IF expect_json \/ reply.kind \in {"object", "broken"}
    THEN IF reply.kind = "object" THEN reply.obj
         ELSE IF reply.kind \in {"array", "number"} /\ expect_json THEN NonObject(reply.kind)
         ELSE IF expect_json THEN ErrorDict("expected_json")
         ELSE Str(reply.text)
    ELSE Str(reply.text)

\* call_llm: OLLAMA_AVAILABLE, client.chat under try/except, the content
call_llm(available, reply, expect_json) ==
    IF ~available THEN LlmResult(ErrorDict("not_available"), <<>>)
    ELSE IF reply.kind = "raise" THEN LlmResult(ErrorDict("transport"), <<"ollama_error">>)
    ELSE LlmResult(parse_content(reply, expect_json), <<>>)

\* The user message as its words, in the order spoken.
\* BUSINESS_KEYWORDS: the single words of the patterns,
BusinessWords ==
    {"income", "earning", "earn", "earned", "kamaya", "paisa", "rupee", "rs",
     "expense", "spent", "spend", "kharcha", "kharch",
     "customer", "client", "sahib", "ji",
     "motor", "motar", "rewinding", "repair", "fix", "service",
     "winding", "coil", "bearing", "pump",
     "report", "total", "sum", "today", "yesterday", "month", "week",
     "show", "display", "list", "kitna", "kya",
     "delete", "remove", "cancel", "galat"}
\* the units of the amount pattern and the words of the "from Ram" pattern
AmountUnits == {"rupee", "rs", "paisa"}
Prepositions == {"from", "to", "for", "se", "ko"}
IsDigits(w) == w \in {"1500", "500"}
IsLetters(w) == ~IsDigits(w) /\ w # "?"

\* the pre-check that lets nothing through: every message takes the slow path
never_business(message) == FALSE

\* looks_like_business_query: re.search of each pattern in message.lower()
looks_like_business_query(message) ==
    \E i \in 1..Len(message) :
        \/ Lower(message[i]) \in BusinessWords
        \/ i < Len(message)
           /\ \/ Lower(message[i]) = "how" /\ Lower(message[i + 1]) = "much"
              \/ IsDigits(message[i]) /\ Lower(message[i + 1]) \in AmountUnits
              \/ Lower(message[i]) \in Prepositions /\ IsLetters(message[i + 1])

\* what a worker function returns: the {intent, payload} dict, the lines printed
\* meanwhile and the remote calls made, in order
WorkerResult(intent, payload, printed, calls) ==
    [intent |-> intent, payload |-> payload, printed |-> printed, calls |-> calls]

\* parse_business_command: the remote dict is returned as it is when it has
\* the key intent
parse_business_command(available, remote) ==
    LET r == call_llm(available, remote.parse, TRUE)
    IN IF HasError(r.value)
       THEN WorkerResult("error", Str(r.value.error), r.printed, <<"parse">>)
       ELSE IF r.value.ty = "dict" /\ r.value.intent # NULL
       THEN WorkerResult(r.value.intent,
                         IF r.value.payload = NULL THEN Absent ELSE Str(r.value.payload),
                         r.printed, <<"parse">>)
       ELSE WorkerResult("error", Str("could_not_parse"), r.printed, <<"parse">>)

\* a word of the list occurs in the lower-cased text
AnyWordIn(words, text) ==
    \E w \in words : LikePattern(LowerChars(Chars(text)), Chars(w))

\* lines 198-205: the intent of a plain-text answer
TextIntent(message, text) ==
    IF AnyWordIn({"hello", "hi", "namaste", "good morning"}, text) THEN "greeting"
    ELSE IF \E i \in 1..Len(message) :
               message[i] = "?" \/ AnyWordIn({"help", "what", "how"}, message[i])
    THEN "question"
    ELSE "general_response"

\* the results of two steps in a row: the later result, after the earlier
\* step's printed lines and calls
After(first, second) ==
    [second EXCEPT !.printed = first.printed \o @, !.calls = first.calls \o @]

\* process_user_message with lines 193-194 left out: a dict that is not the
\* business marker is answered like plain text
process_user_message_guessing(message, available, remote) ==
    LET r == call_llm(available, remote.classify, FALSE)
        asked == WorkerResult("", Absent, r.printed, <<"classify">>)
    IN IF looks_like_business_query(message) THEN parse_business_command(available, remote)
       ELSE IF r.value.ty = "dict" /\ HasError(r.value)
       THEN After(asked, WorkerResult("error", Str(r.value.error), <<>>, <<>>))
       ELSE IF r.value.ty = "dict" /\ r.value.business_intent = "needs_business_processing"
       THEN After(asked, parse_business_command(available, remote))
       ELSE After(asked, WorkerResult("general_response", r.value, <<>>, <<>>))

\* process_user_message
process_user_message(message, available, remote) ==
    LET r == call_llm(available, remote.classify, FALSE)
        asked == WorkerResult("", Absent, r.printed, <<"classify">>)
    IN IF looks_like_business_query(message) THEN parse_business_command(available, remote)
       ELSE IF r.value.ty = "dict"
       THEN IF HasError(r.value)
            THEN After(asked, WorkerResult("error", Str(r.value.error), <<>>, <<>>))
            ELSE IF r.value.business_intent = "needs_business_processing"
            THEN After(asked, parse_business_command(available, remote))
            ELSE After(asked, WorkerResult("error", Str("unexpected_format"), <<>>, <<>>))
       ELSE After(asked, WorkerResult(TextIntent(message, r.value.text), r.value, <<>>, <<>>))

\* formulate_and_enhance_answer without the fallback of lines 253-255: the
\* error of the second call is returned like that of the first
formulate_without_fallback(available, remote) ==
    LET a == call_llm(available, remote.summarize, FALSE)
        b == call_llm(available, remote.enrich, FALSE)
    IN IF HasError(a.value)
       THEN WorkerResult("error", Str(a.value.error), a.printed, <<"summarize">>)
       ELSE IF HasError(b.value)
       THEN WorkerResult("error", Str(b.value.error), a.printed \o b.printed,
                         <<"summarize", "enrich">>)
       ELSE WorkerResult("answer", b.value, a.printed \o b.printed, <<"summarize", "enrich">>)

\* formulate_and_enhance_answer
formulate_and_enhance_answer(available, remote) ==
    LET a == call_llm(available, remote.summarize, FALSE)
        b == call_llm(available, remote.enrich, FALSE)
    IN IF HasError(a.value)
       THEN WorkerResult("error", Str(a.value.error), a.printed, <<"summarize">>)
       ELSE IF HasError(b.value)
       THEN WorkerResult("answer", a.value, a.printed \o b.printed, <<"summarize", "enrich">>)
       ELSE WorkerResult("answer", b.value, a.printed \o b.printed, <<"summarize", "enrich">>)

\* main: the task is routed and the result printed as one JSON line, after
\* whatever the import (line 17) and the calls printed; `history` is the
\* history of the request, its entries with their role and, for a user turn,
\* the words of the message as content
main(task, history, available, remote) ==
    LET alert == IF available THEN <<>> ELSE <<"alert">>
        res == IF task = "parse_command"
               THEN IF history = <<>> \/ history[Len(history)].role # "user"
                    THEN WorkerResult("error", Str("no_user_message"), <<>>, <<>>)
                    ELSE process_user_message(history[Len(history)].content, available, remote)
               ELSE IF task = "formulate_answer_from_data"
               THEN formulate_and_enhance_answer(available, remote)
               ELSE WorkerResult("error", Str("unknown_task"), <<>>, <<>>)
    IN [result |-> [intent |-> res.intent, payload |-> res.payload],
        calls |-> res.calls,
        stdout |-> alert \o res.printed \o <<"json">>]

\* _run_llm_parser, lines 547-553: json.loads of the whole of stdout
response_data(out) ==
    IF out.stdout = <<"json">> THEN out.result
    ELSE [intent |-> "error", payload |-> Str("failed_to_parse")]

\* _run_llm_parser without lines 543-545: stderr is not looked at
run_llm_parser_ignoring_stderr(out, stderr) == response_data(out)

\* _run_llm_parser, lines 541-556: text on stderr raises an Exception, which
\* the last except clause turns into an error; otherwise stdout is parsed.
\* `stderr` is the lines the process wrote there.
run_llm_parser(out, stderr) ==
    IF stderr # <<>> THEN [intent |-> "error", payload |-> Str("system_error")]
    ELSE response_data(out)

\* what a run of the worker process may leave on stderr: nothing, or a
\* warning of the interpreter or of a library
WorkerStderr == {<<>>, <<"warning">>}

\* the messages, replies and requests of the worker specification
UserMessages ==
    {<<"Income", "1500", "from", "Ram">>, <<"hi">>, <<"what", "is", "photosynthesis", "?">>,
     <<"thanks", "to", "you">>, <<"tell", "me", "more">>}
RemoteObjects ==
    {Dict(NULL, "needs_business_processing", NULL, NULL),
     Dict(NULL, NULL, "transaction", "PAYLOAD"),
     Dict(NULL, NULL, "transaction", NULL),
     Dict("model overloaded", NULL, NULL, NULL),
     Dict(NULL, NULL, NULL, NULL)}
RemoteReplies ==
    {Raises, TextReply("Hello there"), TextReply("Plants make sugar"),
     Reply("broken", "BROKEN_OBJECT", Absent), Reply("number", "42", Absent)}
    \cup {ObjectReply(o) : o \in RemoteObjects}
Remotes ==
    [classify : RemoteReplies, parse : RemoteReplies,
     summarize : {Raises}, enrich : {Raises}]
    \cup [classify : {Raises}, parse : {Raises},
          summarize : RemoteReplies, enrich : RemoteReplies]
WorkerTasks == {"parse_command", "formulate_answer_from_data", "report"}
HistoryTurn(role, content) == [role |-> role, content |-> content]
WorkerHistories ==
    {<<>>, <<HistoryTurn("user", <<"hi">>), HistoryTurn("assistant", <<"json">>)>>}
    \cup {<<HistoryTurn("user", m)>> : m \in UserMessages}

\* one run of the worker process for one request
RunWorker(task, history, available, remote, stderr) ==
    /\ last_call' = [op |-> "worker", task |-> task, history |-> history,
                     available |-> available, remote |-> remote, stderr |-> stderr,
                     res |-> main(task, history, available, remote),
                     command |-> run_llm_parser(main(task, history, available, remote),
                                                stderr)]
    /\ UNCHANGED <<db, today, appVars>>

\* A run of the worker depends on its request and on the remote model alone:
\* a behaviour is one run.
WorkerNext ==
    /\ last_call = NoCall
    /\ \E task \in WorkerTasks, history \in WorkerHistories,
          available \in BOOLEAN, remote \in Remotes, stderr \in WorkerStderr :
          RunWorker(task, history, available, remote, stderr)

WorkerInit == PureInit /\ db = EmptyDB

WorkerSpec == WorkerInit /\ [][WorkerNext]_vars

(***************************************************************************)
(* The orchestrator (app.py).                                              *)
(***************************************************************************)
\* response_data, the Command the worker step produced
TransactionPayloads ==
    {Payload("income", 50000, "Ram", "motor repair"),
     Payload("income", 0, "Ram", "motor repair"),
     NoPayload}

UpdateCommandPayloads ==
    {Payload(NULL, 60000, NULL, NULL),
     Payload("income", 60000, "Ram", "motor repair"),
     NoPayload}

\* the Commands a parse_command request may come back with; an "error" is
\* also what _run_llm_parser makes of a timeout, of text on stderr and of
\* output that is not JSON
ParseCommands ==
    {Command("transaction", p, NoFilter) : p \in TransactionPayloads}
    \cup {Command("update_transaction", p, NoFilter) : p \in UpdateCommandPayloads}
    \cup {Command("database_query", NoPayload, f) : f \in {Filter("ram"), NoFilter}}
    \cup {Command(i, NoPayload, NoFilter) :
            i \in {"delete_transactions", "answer", "greeting", "error"}}

\* the Commands a formulate_answer_from_data request may come back with
FormulateCommands ==
    {Command(i, NoPayload, NoFilter) : i \in {"answer", "error"}}

WorkerResponses(task) ==
    IF task = "parse_command" THEN ParseCommands ELSE FormulateCommands

\* self.conversation_history[-6:]
HistoryWindow == 6
LastN(h, n) == IF Len(h) <= n THEN h ELSE SubSeq(h, Len(h) - n + 1, Len(h))

\* the append without line 674: the history is never cut
AppendExchangeUncut(h, msg, resp) == h \o <<UserTurn(msg), AssistantTurn(resp)>>

\* the append with line 674 written [:6]: the oldest entries are kept
AppendExchangeKeepOldest(h, msg, resp) ==
    SubSeq(h \o <<UserTurn(msg), AssistantTurn(resp)>>, 1,
           IF Len(h) + 2 <= HistoryWindow THEN Len(h) + 2 ELSE HistoryWindow)

\* lines 672-674: append the exchange, keep the last 6 entries
AppendExchange(h, msg, resp) ==
    LastN(h \o <<UserTurn(msg), AssistantTurn(resp)>>, HistoryWindow)

\* update_daily_stats(): `with self.db_lock` on a lock that is not reentrant.
\* TRUE when the calling thread gets the lock, FALSE when it waits for it.
update_daily_stats(lock) == lock = "free"

\* What one branch of handle_llm_response does up to the point where it
\* leaves the if/elif chain:
\*   kind     "ok" (falls through to line 670), "return" (line 578), "raised"
\*            (an exception reaches line 676) or "blocked" (the UI thread waits
\*            for db_lock inside the branch)
\*   text     assistant_response_text
\*   replies  add_chat_message calls made inside the branch
\*   reset    reset_ui_state was called inside the branch
\*   dispatch process_command was called for formulate_answer_from_data
Branch(kind, text, ltid, edit, D, lock) ==
    [kind |-> kind, text |-> text, ltid |-> ltid, edit |-> edit, db |-> D, lock |-> lock,
     replies |-> 0, reset |-> FALSE, dispatch |-> FALSE]

\* lines 567-580
HandleDatabaseQuery(resp, ltid, edit, D, lock) ==
    IF ~resp.filter.present
    THEN Branch("ok", "need_details", ltid, edit, D, lock)
    ELSE IF lock # "free"
    THEN Branch("blocked", "", ltid, edit, D, lock)
    ELSE IF query_transactions(D, resp.filter) = <<>>
    THEN [Branch("ok", "no_records", ltid, edit, D, lock) EXCEPT !.replies = 1, !.reset = TRUE]
    ELSE [Branch("return", "", ltid, edit, D, lock) EXCEPT !.dispatch = TRUE]

\* retries = 3
DeleteRetries == 3

RECURSIVE HandleDeleteFrom(_, _, _, _, _, _)
\* lines 582-600, from attempt number `attempt` on
HandleDeleteFrom(ltid, edit, D, lock, day, attempt) ==
    LET res == delete_todays_transactions(D, NoFaults, day)
    IN IF lock # "free"
       THEN Branch("blocked", "", ltid, edit, D, lock)
       ELSE IF res.ok /\ res.value > 0
       THEN IF update_daily_stats(lock)
            THEN Branch("ok", "deleted", ltid, edit, res.db, lock)
            ELSE Branch("blocked", "", ltid, edit, res.db, lock)
       ELSE IF res.ok
       THEN Branch("ok", "nothing_to_delete", ltid, edit, res.db, lock)
       ELSE IF res.err = "locked" /\ attempt < DeleteRetries - 1
       THEN HandleDeleteFrom(ltid, edit, res.db, lock, day, attempt + 1)
       ELSE IF res.err = "locked"
       THEN Branch("ok", "delete_error", ltid, edit, res.db, lock)
       ELSE Branch("raised", "", ltid, edit, res.db, lock)

HandleDelete(ltid, edit, D, lock, day) == HandleDeleteFrom(ltid, edit, D, lock, day, 0)

\* lines 605-618: any intent but database_query, delete_transactions and
\* answer while edit-mode is set
HandleEditMode(resp, ltid, edit, D, lock, day) ==
    LET res == update_transaction(D, ltid, resp.payload, NoFaults, day)
    IN IF resp.intent = "transaction" /\ resp.payload.present
       THEN IF lock # "free"
            THEN Branch("blocked", "", ltid, edit, D, lock)
            ELSE IF ~validate_transaction_data(resp.payload)[1]
            THEN Branch("ok", "invalid_update", ltid, FALSE, D, lock)
            ELSE IF ~res.ok
            THEN Branch("raised", "", ltid, edit, res.db, lock)
            ELSE IF update_daily_stats("ui")
            THEN Branch("ok", "updated", ltid, FALSE, res.db, lock)
            ELSE Branch("blocked", "", ltid, edit, res.db, "ui")
       ELSE Branch("ok", "include_amount", ltid, FALSE, D, lock)

\* lines 620-644
HandleTransaction(resp, ltid, edit, D, lock, day) ==
    LET res == add_transaction(D, resp.payload, NoFaults, day)
    IN IF ~resp.payload.present
       THEN Branch("ok", "include_amount", ltid, edit, D, lock)
       ELSE IF lock # "free"
       THEN Branch("blocked", "", ltid, edit, D, lock)
       ELSE IF ~validate_transaction_data(resp.payload)[1]
       THEN Branch("ok", "invalid_transaction", ltid, edit, D, lock)
       ELSE IF ~res.ok
       THEN Branch("raised", "", ltid, edit, res.db, lock)
       ELSE IF update_daily_stats("ui")
       THEN Branch("ok", "recorded", res.value, edit, res.db, lock)
       ELSE Branch("blocked", "", res.value, edit, res.db, "ui")

\* lines 646-657 with line 647 written `if payload:`
HandleUpdateUnguarded(resp, ltid, edit, D, lock, day) ==
    LET res == update_transaction(D, ltid, resp.payload, NoFaults, day)
    IN IF ~resp.payload.present
       THEN Branch("ok", "no_recent_transaction", ltid, edit, D, lock)
       ELSE IF lock # "free"
       THEN Branch("blocked", "", ltid, edit, D, lock)
       ELSE IF ~validate_transaction_data(resp.payload)[1]
       THEN Branch("ok", "invalid_update", ltid, edit, D, lock)
       ELSE IF ~res.ok
       THEN Branch("raised", "", ltid, edit, res.db, lock)
       ELSE IF update_daily_stats("ui")
       THEN Branch("ok", "updated", ltid, edit, res.db, lock)
       ELSE Branch("blocked", "", ltid, edit, res.db, "ui")

\* lines 646-657
HandleUpdateTransaction(resp, ltid, edit, D, lock, day) ==
    LET res == update_transaction(D, ltid, resp.payload, NoFaults, day)
    IN IF ~(resp.payload.present /\ ltid # 0)
       THEN Branch("ok", "no_recent_transaction", ltid, edit, D, lock)
       ELSE IF lock # "free"
       THEN Branch("blocked", "", ltid, edit, D, lock)
       ELSE IF ~validate_transaction_data(resp.payload)[1]
       THEN Branch("ok", "invalid_update", ltid, edit, D, lock)
       ELSE IF ~res.ok
       THEN Branch("raised", "", ltid, edit, res.db, lock)
       ELSE IF update_daily_stats("ui")
       THEN Branch("ok", "updated", ltid, edit, res.db, lock)
       ELSE Branch("blocked", "", ltid, edit, res.db, "ui")

\* lines 567-668: the if/elif chain, in the order of the code
HandleBranch(resp, ltid, edit, D, lock, day) ==
    IF resp.intent = "database_query" THEN HandleDatabaseQuery(resp, ltid, edit, D, lock)
    ELSE IF resp.intent = "delete_transactions" THEN HandleDelete(ltid, edit, D, lock, day)
    ELSE IF resp.intent = "answer" THEN Branch("ok", "answer", ltid, edit, D, lock)
    ELSE IF edit THEN HandleEditMode(resp, ltid, edit, D, lock, day)
    ELSE IF resp.intent = "transaction" THEN HandleTransaction(resp, ltid, edit, D, lock, day)
    ELSE IF resp.intent = "update_transaction"
    THEN HandleUpdateTransaction(resp, ltid, edit, D, lock, day)
    ELSE IF resp.intent = "greeting" THEN Branch("ok", "greeting", ltid, edit, D, lock)
    ELSE IF resp.intent = "question" THEN Branch("ok", "question", ltid, edit, D, lock)
    ELSE IF resp.intent = "error" THEN Branch("ok", "error", ltid, edit, D, lock)
    ELSE Branch("ok", "not_sure", ltid, edit, D, lock)

\* worker_input with the history as it stands, the current turn not added
worker_input_without_turn(msg, task) ==
    [msg |-> msg, task |-> task, history |-> conversation_history]

\* lines 521-525: the request of a worker, the history being
\* self.conversation_history + [{'role': 'user', 'content': command_text}]
worker_input(msg, task) ==
    [msg |-> msg, task |-> task, history |-> conversation_history \o <<UserTurn(msg)>>]

\* process_command without lines 514-515: a worker is started every time
process_command_unguarded(passed, proc, infl, msg, task) ==
    [is_processing |-> TRUE, inflight |-> infl \cup {worker_input(msg, task)},
     started |-> TRUE]

\* process_command once its test of is_processing has been made: `passed` is
\* the outcome of `if self.is_processing: return`.  Lines 517-527.
process_command(passed, proc, infl, msg, task) ==
    IF passed
    THEN [is_processing |-> TRUE, inflight |-> infl \cup {worker_input(msg, task)},
          started |-> TRUE]
    ELSE [is_processing |-> proc, inflight |-> infl, started |-> FALSE]

\* on_submit: the Return key or the send button, with a text typed
OnSubmit ==
    /\ ui_pc = "mainloop"
    /\ submitted < MaxRequests
    /\ submitted' = submitted + 1
    /\ LET pc == process_command(~is_processing, is_processing, inflight, submitted + 1,
                                 "parse_command")
       IN /\ is_processing' = pc.is_processing
          /\ inflight' = pc.inflight
          /\ buttons_enabled' = IF pc.started THEN FALSE ELSE buttons_enabled
    /\ UNCHANGED <<storeVars, conversation_history, last_transaction_id, is_edit_mode, db_lock,
                   ui_pc, ui_queue, voice, demo>>

\* on_voice_input: starts the listening thread, whose first act is to have
\* the buttons disabled
OnVoiceInput ==
    /\ ui_pc = "mainloop"
    /\ buttons_enabled
    /\ voice.pc = "none"
    /\ submitted < MaxRequests
    /\ ~is_processing
    /\ voice' = [pc |-> "listening", msg |-> submitted + 1]
    /\ submitted' = submitted + 1
    /\ buttons_enabled' = FALSE
    /\ UNCHANGED <<storeVars, conversation_history, last_transaction_id, is_processing,
                   is_edit_mode, db_lock, ui_pc, ui_queue, inflight, demo>>

\* listen_and_process_voice up to the test that opens process_command: nothing
\* was heard, or a text was heard and is_processing is read
VoiceListen(heard) ==
    /\ voice.pc = "listening"
    /\ voice' = IF heard /\ ~is_processing THEN [voice EXCEPT !.pc = "checked"]
                ELSE [pc |-> "none", msg |-> 0]
    /\ buttons_enabled' = IF heard THEN buttons_enabled ELSE TRUE
    /\ UNCHANGED <<storeVars, conversation_history, last_transaction_id, is_processing,
                   is_edit_mode, db_lock, ui_pc, ui_queue, inflight, demo, submitted>>

\* the rest of process_command in the listening thread
VoiceStart ==
    /\ voice.pc = "checked"
    /\ LET pc == process_command(TRUE, is_processing, inflight, voice.msg, "parse_command")
       IN /\ is_processing' = pc.is_processing
          /\ inflight' = pc.inflight
    /\ buttons_enabled' = FALSE
    /\ voice' = [pc |-> "none", msg |-> 0]
    /\ UNCHANGED <<storeVars, conversation_history, last_transaction_id, is_edit_mode, db_lock,
                   ui_pc, ui_queue, demo, submitted>>

\* _run_llm_parser: the worker answers (or fails) and the callback is posted
WorkerDone(w, resp) ==
    /\ w \in inflight
    /\ resp \in WorkerResponses(w.task)
    /\ inflight' = inflight \ {w}
    /\ ui_queue' = Append(ui_queue, [msg |-> w.msg, response |-> resp])
    /\ UNCHANGED <<storeVars, conversation_history, last_transaction_id, is_processing,
                   is_edit_mode, buttons_enabled, db_lock, ui_pc, voice, demo, submitted>>

\* handle_llm_response, run by the UI thread for the oldest posted callback:
\* the branch, then lines 670-674, the except clause and the finally clause
HandleLlmResponse ==
    /\ ui_pc = "mainloop"
    /\ ui_queue # <<>>
    /\ LET cb == Head(ui_queue)
           b == HandleBranch(cb.response, last_transaction_id, is_edit_mode, db, db_lock, today)
           pc == process_command(b.dispatch /\ ~is_processing, is_processing, inflight, cb.msg,
                                 "formulate_answer_from_data")
       IN /\ ui_queue' = Tail(ui_queue)
          /\ db' = b.db
          /\ last_transaction_id' = b.ltid
          /\ is_edit_mode' = b.edit
          /\ db_lock' = b.lock
          /\ inflight' = pc.inflight
          /\ IF b.kind = "blocked"
             THEN /\ ui_pc' = "blocked"
                  /\ UNCHANGED <<conversation_history, is_processing, buttons_enabled>>
             ELSE /\ ui_pc' = "mainloop"
                  /\ conversation_history' =
                        IF b.kind = "ok"
                        THEN AppendExchange(conversation_history, cb.msg, cb.response)
                        ELSE conversation_history
                  /\ is_processing' = FALSE
                  /\ buttons_enabled' = TRUE
    /\ UNCHANGED <<today, last_call, voice, demo, submitted>>

\* on_edit_last
OnEditLast ==
    /\ ui_pc = "mainloop"
    /\ buttons_enabled
    /\ LET last == get_last_transaction(db)
       IN IF is_processing \/ last = <<>>
          THEN UNCHANGED <<is_edit_mode, last_transaction_id>>
          ELSE /\ is_edit_mode' = TRUE
               /\ last_transaction_id' = last[1].id
    /\ UNCHANGED <<storeVars, conversation_history, is_processing, buttons_enabled, db_lock,
                   ui_pc, ui_queue, inflight, voice, demo, submitted>>

\* on_view_reports: reads the ledger under db_lock
OnViewReports ==
    /\ ui_pc = "mainloop"
    /\ buttons_enabled
    /\ ui_pc' = IF db_lock = "free" THEN "mainloop" ELSE "blocked"
    /\ UNCHANGED <<storeVars, conversation_history, last_transaction_id, is_processing,
                   is_edit_mode, buttons_enabled, db_lock, ui_queue, inflight, voice, demo,
                   submitted>>

\* demo_transactions
DemoTransactions ==
    <<Payload("income", 160000, "Ram", "Four 400 rpm motors"),
      Payload("income", 160000, NULL, "Four 400 rpm motors"),
      Payload("expense", 50000, NULL, "Copper wire purchase"),
      Payload("income", 200000, "Sharma Ji", "Motor rewinding")>>

\* add_demo_data, run by the UI thread
AddDemoData ==
    /\ ui_pc = "mainloop"
    /\ buttons_enabled
    /\ Len(demo) < MaxDemo
    /\ IF is_processing
       THEN UNCHANGED <<is_processing, buttons_enabled, demo>>
       ELSE /\ is_processing' = TRUE
            /\ buttons_enabled' = FALSE
            /\ demo' = Append(demo, [pc |-> "acquire"])
    /\ UNCHANGED <<storeVars, conversation_history, last_transaction_id, is_edit_mode, db_lock,
                   ui_pc, ui_queue, inflight, voice, submitted>>

\* insert_demo_transactions: `with self.db_lock`
DemoAcquire(t) ==
    /\ t \in 1..Len(demo)
    /\ demo[t].pc = "acquire"
    /\ db_lock = "free"
    /\ db_lock' = "demo"
    /\ demo' = [demo EXCEPT ![t].pc = "insert"]
    /\ UNCHANGED <<storeVars, conversation_history, last_transaction_id, is_processing,
                   is_edit_mode, buttons_enabled, ui_pc, ui_queue, inflight, voice, submitted>>

RECURSIVE DemoLoop(_, _, _)
\* insert_demo_transactions: the for loop from transaction i on; the database
\* it leaves (an exception of add_transaction ends the loop)
DemoLoop(D, i, day) ==
    IF i > Len(DemoTransactions) THEN D
    ELSE IF ~validate_transaction_data(DemoTransactions[i])[1] THEN DemoLoop(D, i + 1, day)
    ELSE CHOOSE out \in {IF res.ok THEN DemoLoop(res.db, i + 1, day) ELSE res.db :
                            res \in {add_transaction(D, DemoTransactions[i], NoFaults, day)}} :
            TRUE

\* insert_demo_transactions once it holds db_lock: the for loop, then the
\* finally clause, which runs inside the `with` and calls update_daily_stats
DemoRun(t) ==
    /\ t \in 1..Len(demo)
    /\ demo[t].pc = "insert"
    /\ db' = DemoLoop(db, 1, today)
    /\ is_processing' = FALSE
    /\ buttons_enabled' = TRUE
    /\ IF update_daily_stats(db_lock)
       THEN /\ demo' = [demo EXCEPT ![t].pc = "done"]
            /\ db_lock' = "free"
       ELSE /\ demo' = [demo EXCEPT ![t].pc = "blocked"]
            /\ db_lock' = db_lock
    /\ UNCHANGED <<today, last_call, conversation_history, last_transaction_id, is_edit_mode,
                   ui_pc, ui_queue, inflight, voice, submitted>>

Next ==
    \/ OnSubmit
    \/ OnVoiceInput
    \/ \E heard \in BOOLEAN : VoiceListen(heard)
    \/ VoiceStart
    \/ \E w \in inflight : \E resp \in WorkerResponses(w.task) : WorkerDone(w, resp)
    \/ HandleLlmResponse
    \/ OnEditLast
    \/ OnViewReports
    \/ AddDemoData
    \/ \E t \in 1..MaxDemo : DemoAcquire(t)
    \/ \E t \in 1..MaxDemo : DemoRun(t)

Spec == Init /\ [][Next]_vars

\* The threads of the program run: a started worker thread ends (its
\* subprocess is waited for at most 60 s), the Tk main loop runs the callbacks
\* posted to it, and the voice and demo threads take their next step.  What the
\* user does is not fair.
Fairness ==
    /\ WF_vars(\E w \in inflight : \E resp \in WorkerResponses(w.task) : WorkerDone(w, resp))
    /\ WF_vars(HandleLlmResponse)
    /\ WF_vars(\E heard \in BOOLEAN : VoiceListen(heard))
    /\ WF_vars(VoiceStart)
    /\ WF_vars(\E t \in 1..MaxDemo : DemoAcquire(t))
    /\ WF_vars(\E t \in 1..MaxDemo : DemoRun(t))

FairSpec == Spec /\ Fairness

(***************************************************************************)
(* The claims.                                                             *)
(***************************************************************************)
\* the callback handle_llm_response is about to handle, and its branch
Handled == Head(ui_queue)
HandledBranch ==
    HandleBranch(Handled.response, last_transaction_id, is_edit_mode, db, db_lock, today)

\* a demo insert batch is in flight: a demo thread has been started and has
\* not reached the end of its finally clause
DemoInFlight == \E t \in 1..Len(demo) : demo[t].pc \in {"acquire", "insert"}

\* C1: every accepted utterance eventually returns the Orchestrator to Idle
\* (is_processing = false), whatever Command the worker produced.
C1_AcceptedRequestReturnsToIdle == (inflight # {}) ~> (~is_processing)

\* C2: single-flight.  At most one request is in progress at a time (a worker
\* running, a posted callback waiting, or a demo batch), is_processing is true
\* whenever a worker request or a demo batch is in flight, and so no second
\* worker is started before the first request has completed.
C2_SingleFlight ==
    /\ Cardinality(inflight) + Len(ui_queue) + (IF DemoInFlight THEN 1 ELSE 0) <= 1
    /\ (inflight # {} \/ DemoInFlight) => is_processing

\* the call last_call records met lock-busy on its first k attempts and
\* nothing else: its payload is valid and the lock was met at the write
ValidPayload(p) == p.present /\ validate_transaction_data(p)[1]

\* C3 (the case of an insert whose INSERT statement meets the lock): when the
\* store reports lock-busy on the first k attempts and then stops, the call
\* succeeds for every k <= 3, fails with a store error for k = 4, and never
\* makes more than 4 attempts.
C3_InsertRetriesThreeTimes ==
    (/\ last_call.op = "insert"
     /\ ValidPayload(last_call.payload)
     /\ \A i \in 1..SchedLen : last_call.sched[i] \in {"none", "lock_write"})
    => /\ last_call.res.attempts <= 4
       /\ LeadingLocks(last_call.sched) <= 3 => last_call.res.ok
       /\ LeadingLocks(last_call.sched) >= 4 => (~last_call.res.ok /\ last_call.res.err = "locked")

\* the stored DailyInsight of a day equals the aggregate of the day's rows
InsightFresh(D, day) == InsightOf(D.rows, day) \in D.insights

\* a step of the store specification that is a mutating call with something to
\* write: an insert, an update of a row that exists, a delete on a day that
\* has rows
WriteStep ==
    /\ today' = today
    /\ \/ last_call'.op = "insert"
       \/ last_call'.op = "update" /\ RowsWithId(db.rows, last_call'.tid) > 0
       \/ last_call'.op = "delete" /\ CountDay(db.rows, today) > 0

\* C4: after a successful insert, update or deleteScope the stored
\* DailyInsight for today equals the aggregate of today's committed rows, and
\* no recompute made by the call read the table before the call's own write
\* was committed.
C4_RecomputeSeesOwnWrite ==
    [][WriteStep =>
        /\ last_call'.res.uncommitted = 0
        /\ last_call'.res.ok /\ last_call'.res.recomputes > 0 => InsightFresh(db', today')]_vars

\* a step of the store specification that is a call of add_transaction
InsertStep == last_call'.op = "insert" /\ today' = today

\* C5: insert is atomic: a call that returns an id has persisted exactly one
\* new row, and a call that fails has persisted none.
C5_InsertAtomic ==
    [][InsertStep =>
        /\ last_call'.res.ok => Len(db'.rows) = Len(db.rows) + 1
        /\ ~last_call'.res.ok => db'.rows = db.rows]_vars

\* handle_llm_response takes a database_query Command whose query returns rows
QueryWithRows ==
    /\ ui_queue # <<>>
    /\ Handled.response.intent = "database_query"
    /\ Handled.response.filter.present
    /\ db_lock = "free"
    /\ query_transactions(db, Handled.response.filter) # <<>>

\* C6: when a database_query Command is handled and the query returns at least
\* one row, a formulate_answer_from_data worker request is dispatched for the
\* utterance and no history entry is appended for the hop.
C6_QueryDispatchesFormulator ==
    [][HandleLlmResponse /\ QueryWithRows =>
        /\ \E w \in inflight' : w.msg = Handled.msg /\ w.task = "formulate_answer_from_data"
        /\ conversation_history' = conversation_history]_vars

\* the row update(id, fields) is to leave: the supplied fields rewritten, the
\* others as they were
Merged(row, p) ==
    [row EXCEPT !.type = IF p.type = NULL THEN @ ELSE Lower(p.type),
                !.amount_paise = IF p.amount_paise = 0 THEN @ ELSE p.amount_paise,
                !.customer_name = IF p.customer = NULL THEN @ ELSE p.customer,
                !.details = IF p.details = NULL THEN @ ELSE p.details]

\* a step of the store specification that is a call of update_transaction
UpdateStep == last_call'.op = "update" /\ today' = today

\* C7: update(id, fields) on an existing row, met by no lock from outside,
\* rewrites only the supplied fields of that row and leaves every unsupplied
\* field with its previous value.
C7_UpdateRewritesSuppliedFieldsOnly ==
    [][(/\ UpdateStep
        /\ last_call'.sched = NoFaults
        /\ last_call'.payload.amount_paise > 0)
       => \A k \in 1..Len(db.rows) :
            db.rows[k].id = last_call'.tid
            => /\ Len(db'.rows) = Len(db.rows)
               /\ db'.rows[k] = Merged(db.rows[k], last_call'.payload)]_vars

\* handle_llm_response takes a transaction Command with a valid payload while
\* no other thread holds db_lock
ValidTransaction ==
    /\ ui_queue # <<>>
    /\ Handled.response.intent = "transaction"
    /\ ValidPayload(Handled.response.payload)
    /\ db_lock = "free"

\* C8: dispatch of a transaction Command.  With edit-mode set no row is
\* created, the row of id last_transaction_id is updated, last_transaction_id
\* is unchanged and edit-mode is cleared; without edit-mode exactly one row is
\* created and last_transaction_id becomes its id.
C8_TransactionDispatch ==
    [][HandleLlmResponse /\ ValidTransaction =>
        IF is_edit_mode
        THEN /\ Len(db'.rows) = Len(db.rows)
             /\ \A k \in 1..Len(db.rows) :
                    db.rows[k].id = last_transaction_id
                    => db'.rows[k] = Merged(db.rows[k], Handled.response.payload)
             /\ last_transaction_id' = last_transaction_id
             /\ ~is_edit_mode'
        ELSE /\ Len(db'.rows) = Len(db.rows) + 1
             /\ last_transaction_id' = db'.rows[Len(db'.rows)].id
             /\ \A k \in 1..Len(db.rows) : db.rows[k].id # last_transaction_id']_vars

\* handle_llm_response takes a Command of intent error
ErrorCommand == ui_queue # <<>> /\ Handled.response.intent = "error"

\* C9 as claimed: handling a Command of intent error leaves
\* conversation_history, last_transaction_id and edit-mode as they were and
\* does not mutate the ledger.
C9_ErrorLeavesSessionUntouched ==
    [][HandleLlmResponse /\ ErrorCommand =>
        /\ conversation_history' = conversation_history
        /\ last_transaction_id' = last_transaction_id
        /\ is_edit_mode' = is_edit_mode
        /\ db' = db]_vars

\* C9 as amended: handling a Command of intent error leaves
\* last_transaction_id and the ledger as they were, appends the exchange (the
\* user turn, then the error response) to conversation_history, which keeps
\* its last 6 entries, and clears edit-mode if it was set.
C9_ErrorKeepsPointerAndLedger ==
    [][HandleLlmResponse /\ ErrorCommand =>
        /\ last_transaction_id' = last_transaction_id
        /\ db' = db
        /\ Len(conversation_history') <= 6
        /\ Len(conversation_history') >= 2
        /\ conversation_history'[Len(conversation_history')] = AssistantTurn(Handled.response)
        /\ conversation_history'[Len(conversation_history') - 1] = UserTurn(Handled.msg)
        /\ \A i \in 1..(Len(conversation_history') - 2) :
              conversation_history'[i]
                = conversation_history[Len(conversation_history) - (Len(conversation_history') - 2) + i]
        /\ ~is_edit_mode']_vars

\* an error Command has been handled in a session of three earlier
\* exchanges, after on_edit_last had set the pointer and edit-mode: the pointer
\* is still there, edit-mode is cleared, the exchange is the last of the six
\* entries and the oldest exchange is gone
C9_Witness ==
    /\ ui_pc = "mainloop"
    /\ last_transaction_id # 0
    /\ ~is_edit_mode
    /\ Len(conversation_history) = 6
    /\ conversation_history[6].response.intent = "error"
    /\ conversation_history[1] = UserTurn(0 - 1)

\* handle_llm_response returns (it is not left waiting for db_lock) from a
\* Command that is not the database_query hop
Completes ==
    /\ ui_queue # <<>>
    /\ Handled.response.intent # "database_query"
    /\ ui_pc' = "mainloop"

\* C10: after every accepted request completes, whether its handling succeeded
\* or failed (also when the handler raised an exception), the exchange (the
\* user turn and the assistant response) has been appended to the history.
C10_ExchangeAppendedOnCompletion ==
    [][HandleLlmResponse /\ Completes =>
        conversation_history'
          = LastN(conversation_history \o <<UserTurn(Handled.msg), AssistantTurn(Handled.response)>>, 6)]_vars

\* conversation_history' is conversation_history with d of its oldest entries
\* dropped and one exchange (a user turn, then an assistant turn) added
HistoryShifted(d) ==
    LET h == conversation_history
        g == conversation_history'
    IN /\ Len(g) = Len(h) - d + 2
       /\ \A i \in 1..(Len(h) - d) : g[i] = h[d + i]
       /\ g[Len(g) - 1].role = "user"
       /\ g[Len(g)].role = "assistant"
       /\ d > 0 => Len(g) = 6

\* C11: in every reachable state the conversation history holds at most 6
\* entries, and every append to it (and every other change of it) adds one
\* exchange at the end and drops only oldest entries, and those only when the
\* append would exceed 6: the history is always the most recent entries in
\* their original order.
C11_HistoryBoundedMostRecent ==
    /\ [](Len(conversation_history) <= 6)
    /\ [][(\/ conversation_history' # conversation_history
            \/ (HandleLlmResponse /\ ui_queue # <<>> /\ HandledBranch.kind = "ok"))
            => \E d \in 0..Len(conversation_history) : HistoryShifted(d)]_vars

\* two requests were answered in a session of three earlier exchanges: the
\* two oldest exchanges are gone, the history holds utterances 0, 1 and 2 in
\* that order
C11_Witness ==
    /\ Len(conversation_history) = 6
    /\ conversation_history[1] = UserTurn(0)
    /\ conversation_history[3].msg + conversation_history[5].msg = 3
    /\ conversation_history[3].role = "user"
    /\ conversation_history[5].role = "user"

\* C12: for every valid payload (type income or expense, a positive amount,
\* customer and details optional), an insert that returns, followed at once by
\* getLast, gives a record whose id is the id insert returned and whose type,
\* amount, customer and details are the payload's, whatever the ledger held.
C12_InsertThenGetLast ==
    [][(/\ InsertStep
        /\ ValidPayload(last_call'.payload)
        /\ last_call'.payload.type \in {"income", "expense"}
        /\ last_call'.res.ok)
       => LET last == get_last_transaction(db')
          IN /\ last # <<>>
             /\ last[1].id = last_call'.res.value
             /\ last[1].type = last_call'.payload.type
             /\ last[1].amount_paise = last_call'.payload.amount_paise
             /\ last[1].customer_name = last_call'.payload.customer
             /\ last[1].details = last_call'.payload.details]_vars

\* a valid payload without a customer was inserted into a ledger that held
\* two rows, and the call returned id 3
C12_Witness ==
    /\ last_call.op = "insert"
    /\ last_call.res.ok
    /\ last_call.res.value = 3
    /\ last_call.payload.customer = NULL
    /\ Len(db.rows) = 3

\* C13: validate returns ok exactly when type is one of the two enum values
\* income / expense, amount is a positive integer, customer (if present) has
\* length <= 100 and details (if present) has length <= 500; every other
\* payload gets (not ok, reason).
C13_ValidateAcceptsExactlyValid ==
    last_call.op = "validate"
    => LET p == last_call.payload
       IN /\ last_call.res.ok <=>
                /\ p.type \in {"income", "expense"}
                /\ p.amount_is_int /\ p.amount_paise > 0
                /\ (p.customer # NULL => StrLen(p.customer) <= 100)
                /\ (p.details # NULL => StrLen(p.details) <= 500)
          /\ ~last_call.res.ok => last_call.res.msg \notin {"", "Valid"}

\* C14 (the store's own entry points): an insert or update called with a
\* payload that validate rejects does not reach the store: the call fails and
\* the ledger is as it was.
C14_InvalidPayloadNeverStored ==
    [][((InsertStep \/ UpdateStep) /\ ~ValidPayload(last_call'.payload))
       => /\ db'.rows = db.rows
          /\ ~last_call'.res.ok]_vars

\* a step of the store specification that is a call of
\* delete_todays_transactions met by no lock from outside
DeleteStep == last_call'.op = "delete" /\ today' = today /\ last_call'.sched = NoFaults

\* C15: deleteScope(today) removes exactly the rows whose date is today,
\* leaves every row of any other date as it was, and returns the number of
\* rows removed (0 when there were none).
C15_DeleteRemovesExactlyToday ==
    [][DeleteStep =>
        LET NotToday(r) == r.day # today
        IN /\ last_call'.res.ok
           /\ db'.rows = SelectSeq(db.rows, NotToday)
           /\ last_call'.res.value = Len(db.rows) - Len(SelectSeq(db.rows, NotToday))]_vars

\* the DailyInsight records stored for a day
StoredInsights(D, day) == {r \in D.insights : r.insight_date = day}

\* what the successful inserts made today so far amount to, as the store
\* reports it: nothing when today has no rows, else the stored DailyInsight
InsertedSoFar ==
    IF CountDay(db.rows, today) = 0
    THEN [total_income_paise |-> 0, total_expense_paise |-> 0, transaction_count |-> 0]
    ELSE CHOOSE r \in StoredInsights(db, today) : TRUE

\* C16: after any sequence of successful inserts made today into a ledger
\* with no other rows for today, DailyInsight(today) has the sum of the income
\* amounts, the sum of the expense amounts and the number of inserts: each
\* successful insert adds its amount to the total of its type and 1 to the
\* count.
C16_InsightSumsInserts ==
    [][(/\ InsertStep
        /\ last_call'.res.ok
        /\ last_call'.payload.type \in {"income", "expense"}
        /\ (CountDay(db.rows, today) = 0 \/ StoredInsights(db, today) # {}))
       => \E r \in StoredInsights(db', today) :
            /\ r.total_income_paise = InsertedSoFar.total_income_paise
                 + (IF last_call'.payload.type = "income" THEN last_call'.payload.amount_paise ELSE 0)
            /\ r.total_expense_paise = InsertedSoFar.total_expense_paise
                 + (IF last_call'.payload.type = "expense" THEN last_call'.payload.amount_paise ELSE 0)
            /\ r.transaction_count = InsertedSoFar.transaction_count + 1]_vars

\* C17: update(id, fields), with every field supplied and met by no lock
\* from outside, on a row whose date is a day D other than today: the call
\* returns, and DailyInsight(D) then matches the rows of D.
C17_UpdateRecomputesRowsDay ==
    [][(/\ UpdateStep
        /\ last_call'.sched = NoFaults
        /\ ValidPayload(last_call'.payload))
       => \A k \in 1..Len(db.rows) :
            (db.rows[k].id = last_call'.tid /\ db.rows[k].day # today)
            => /\ last_call'.res.ok
               /\ db'.rows[k].amount_paise = last_call'.payload.amount_paise
               /\ InsightFresh(db', db.rows[k].day)]_vars

\* C18: the DailyInsight recompute is idempotent and keyed by date: a second
\* recompute with no ledger change (and no change of date) in between leaves
\* the stored records, and so total_income, total_expense, transaction_count
\* and top_customer, as they were; and in every reachable state there is at
\* most one DailyInsight record per calendar date.
C18_RecomputeIdempotentKeyedByDate ==
    /\ [](\A r1, r2 \in db.insights : r1.insight_date = r2.insight_date => r1 = r2)
    /\ [][(last_call'.op = "recompute" /\ last_call'.res.run = 2) => db'.insights = db.insights]_vars

\* update_daily_insights() has run twice in a row on a day that has rows,
\* over a table that already held the record of an earlier day
C18_Witness ==
    /\ last_call.op = "recompute"
    /\ last_call.res.run = 2
    /\ CountDay(db.rows, today) > 1
    /\ Cardinality(db.insights) > 1
    /\ InsightFresh(db, today)

\* one letter, in either case
C19_SameLetter(a, b) ==
    \/ a = b
    \/ \E k \in 1..Len(UpperCase) : {a, b} = {UpperCase[k], LowerCase[k]}

\* needle is a substring of text, letter case disregarded
C19_Substring(text, needle) ==
    /\ text # NULL
    /\ \E i \in 1..(Len(Chars(text)) + 1) :
          /\ i + Len(Chars(needle)) - 1 <= Len(Chars(text))
          /\ \A j \in 1..Len(Chars(needle)) :
                C19_SameLetter(Chars(text)[i + j - 1], Chars(needle)[j])

\* row r satisfies every field filter f supplies
C19_Satisfies(r, f) ==
    /\ f.customer_name = NULL \/ C19_Substring(r.customer_name, f.customer_name)
    /\ f.details_keyword = NULL \/ C19_Substring(r.details, f.details_keyword)
    /\ f.type = NULL \/ r.type = f.type
    /\ f.min_amount_paise = 0 \/ f.min_amount_paise <= r.amount_paise
    /\ f.max_amount_paise = 0 \/ r.amount_paise <= f.max_amount_paise
    /\ f.date_from = NoDate \/ f.date_from <= r.day
    /\ f.date_to = NoDate \/ r.day <= f.date_to

C19_Matching(f) == {k \in 1..Len(db.rows) : C19_Satisfies(db.rows[k], f)}

\* C19: query(filter) returns exactly the rows of the ledger that satisfy every
\* supplied field of the filter (customer and details as case-insensitive
\* substrings, the type, min <= amount <= max and date_from <= date <= date_to,
\* all inclusive), each once; an omitted field restricts nothing, and a supplied
\* limit only shortens the result.  A customer filter 'ram' returns the rows of
\* 'Ram Traders'.
C19_QueryReturnsExactlyMatching ==
    last_call.op = "query" =>
        LET f == last_call.filter
            R == last_call.res.rows
        IN /\ \A i \in 1..Len(R) : \E k \in C19_Matching(f) : R[i] = db.rows[k]
           /\ \A i, j \in 1..Len(R) : R[i] = R[j] => i = j
           /\ f.limit = 0 => \A k \in C19_Matching(f) : \E i \in 1..Len(R) : R[i] = db.rows[k]
           /\ (f.customer_name = "ram" /\ f.limit = 0
               /\ \A k \in 1..Len(db.rows) :
                     db.rows[k].customer_name = "Ram Traders" => C19_Satisfies(db.rows[k], f))
              => \A k \in 1..Len(db.rows) :
                     db.rows[k].customer_name = "Ram Traders"
                         => \E i \in 1..Len(R) : R[i] = db.rows[k]

\* a query for 'ram' with a type and an amount range returned the row of
\* 'Ram Traders' and left other rows out
C19_Witness ==
    /\ last_call.op = "query"
    /\ last_call.filter.customer_name = "ram"
    /\ last_call.filter.type = "income"
    /\ last_call.filter.min_amount_paise = 20000
    /\ last_call.filter.limit = 0
    /\ Len(last_call.res.rows) = 1
    /\ last_call.res.rows[1].customer_name = "Ram Traders"
    /\ Len(db.rows) = 3

\* the place of a returned row in the order of insertion
C20_Inserted(r) == CHOOSE k \in 1..Len(db.rows) : db.rows[k] = r

\* every row of R was inserted later than the rows after it
C20_MostRecentFirst(R) ==
    /\ \A i \in 1..Len(R) : \E k \in 1..Len(db.rows) : db.rows[k] = R[i]
    /\ \A i, j \in 1..Len(R) : i < j => C20_Inserted(R[i]) > C20_Inserted(R[j])

\* C20: the rows of today, every row, and the rows of a query come back most
\* recent first: a row inserted later never stands after a row inserted
\* earlier.  A query with limit n returns at most n rows, the n most recently
\* inserted of the matching rows.  The last-transaction read returns the row
\* with the greatest identifier, or nothing when the ledger is empty.
C20_MostRecentFirstAndLimit ==
    LET R == last_call.res.rows
    IN /\ last_call.op \in {"query", "get_today", "get_all"} => C20_MostRecentFirst(R)
       /\ last_call.op = "get_today"
          => {R[i] : i \in 1..Len(R)} = {db.rows[k] : k \in {x \in 1..Len(db.rows) : db.rows[x].day = today}}
       /\ last_call.op = "get_all" => {R[i] : i \in 1..Len(R)} = {db.rows[k] : k \in 1..Len(db.rows)}
       /\ (last_call.op = "query" /\ last_call.filter.limit > 0)
          => LET n == last_call.filter.limit
                 M == C19_Matching(last_call.filter)
             IN /\ Len(R) <= n
                /\ Len(R) = (IF Cardinality(M) < n THEN Cardinality(M) ELSE n)
                /\ \A k \in M : (\A i \in 1..Len(R) : R[i] # db.rows[k])
                      => \A i \in 1..Len(R) : C20_Inserted(R[i]) > k
       /\ last_call.op = "get_last"
          => IF db.rows = <<>> THEN R = <<>>
             ELSE /\ Len(R) = 1
                  /\ \E k \in 1..Len(db.rows) : db.rows[k] = R[1]
                  /\ \A k \in 1..Len(db.rows) : db.rows[k].id <= R[1].id

\* a query with limit 2 and no other key returned the two newest of three rows
C20_Witness ==
    /\ last_call.op = "query"
    /\ last_call.filter.limit = 2
    /\ Cardinality(C19_Matching(last_call.filter)) = 3
    /\ Len(last_call.res.rows) = 2
    /\ last_call.res.rows[1].id = 3
    /\ last_call.res.rows[2].id = 2

\* C21: transaction ids are assigned by the store and strictly increase over
\* any sequence of inserts, updates and deletes: the ids of the rows are
\* distinct, the largest id ever assigned never goes down, and every insert
\* that returns an id returns one greater than every id assigned before it,
\* whether or not the row of that id is still there.
C21_IdsStrictlyIncrease ==
    /\ [](/\ \A i, j \in 1..Len(db.rows) : i < j => db.rows[i].id < db.rows[j].id
          /\ \A k \in 1..Len(db.rows) : db.rows[k].id <= db.seq
          /\ (last_call.op = "insert" /\ last_call.res.ok) => last_call.res.value <= db.seq)
    /\ [][/\ db'.seq >= db.seq
          /\ (InsertStep /\ last_call'.res.ok)
             => /\ last_call'.res.value > db.seq
                /\ \A k \in 1..Len(db.rows) : db.rows[k].id < last_call'.res.value
                /\ \E k \in 1..Len(db'.rows) : db'.rows[k].id = last_call'.res.value]_vars

\* an insert whose first attempt used id 1 returned id 2 from its second
C21_Witness ==
    /\ last_call.op = "insert"
    /\ last_call.res.ok
    /\ last_call.res.attempts = 2
    /\ last_call.res.value = 2
    /\ Len(db.rows) = 2
    /\ db.rows[1].id = 1

\* C22: update(id, fields) met by no lock from outside changes only the row of
\* that id: the call returns, with true exactly when a row of that id existed;
\* the row keeps its id and its timestamp; every other row is as it was; and
\* when no row has that id, or the id is null, nothing changes.
C22_UpdateTouchesOnlyItsRow ==
    [][(UpdateStep /\ last_call'.sched = NoFaults /\ last_call'.payload.type # NULL) =>
        LET tid == last_call'.tid
            existed == RowsWithId(db.rows, tid) > 0
        IN /\ last_call'.res.ok
           /\ last_call'.res.value = (IF existed THEN 1 ELSE 0)
           /\ Len(db'.rows) = Len(db.rows)
           /\ \A k \in 1..Len(db.rows) :
                 /\ db'.rows[k].id = db.rows[k].id
                 /\ db'.rows[k].day = db.rows[k].day
                 /\ db.rows[k].id # tid => db'.rows[k] = db.rows[k]
           /\ ~existed => db' = db]_vars

\* C23: an update_transaction Command handled while last_transaction_id is
\* null is a no-op: the ledger, last_transaction_id and edit-mode stay as they
\* were, no update is attempted, and the user is shown the message that there
\* is no recent transaction to update.
C23_UpdateWithoutPointerIsNoOp ==
    [][(HandleLlmResponse /\ ui_queue # <<>>
        /\ Handled.response.intent = "update_transaction" /\ last_transaction_id = 0) =>
        /\ db' = db
        /\ last_transaction_id' = 0
        /\ is_edit_mode' = is_edit_mode
        /\ HandledBranch.kind = "ok"
        /\ HandledBranch.text = "no_recent_transaction"
        /\ ui_pc' = "mainloop"]_vars

\* a valid update_transaction Command has been handled and answered in a
\* session that never set the pointer
C23_Witness ==
    /\ ui_pc = "mainloop"
    /\ last_transaction_id = 0
    /\ conversation_history # <<>>
    /\ conversation_history[Len(conversation_history)].response.intent = "update_transaction"
    /\ validate_transaction_data(
          conversation_history[Len(conversation_history)].response.payload)[1]

\* a submission reaches the test of is_processing while a request is in
\* progress: a typed text in on_submit, or a spoken text in the listening
\* thread's process_command
BusySubmission ==
    /\ is_processing
    /\ \/ OnSubmit
       \/ voice.pc = "listening" /\ voice'.pc # "listening"

\* the requests started or posted, by message number
PendingMessages(infl, queue) ==
    {w.msg : w \in infl} \cup {queue[k].msg : k \in 1..Len(queue)}

\* C24: a submission made while a request is in progress is dropped: it
\* starts no worker, it is not queued for later, and it leaves
\* conversation_history, last_transaction_id, edit-mode and the ledger as
\* they were.
C24_BusySubmissionDropped ==
    [][BusySubmission =>
        /\ inflight' = inflight
        /\ ui_queue' = ui_queue
        /\ (IF voice'.pc # voice.pc THEN voice.msg ELSE submitted')
              \notin PendingMessages(inflight', ui_queue')
        /\ voice'.pc # voice.pc => voice'.pc = "none"
        /\ is_processing'
        /\ conversation_history' = conversation_history
        /\ last_transaction_id' = last_transaction_id
        /\ is_edit_mode' = is_edit_mode
        /\ db' = db]_vars

\* the first text is with its worker and the second, typed meanwhile, is
\* nowhere
C24_Witness ==
    /\ is_processing
    /\ submitted = 2
    /\ \E w \in inflight : inflight = {w} /\ w.msg = 1 /\ w.task = "parse_command"
    /\ ui_queue = <<>>
    /\ voice.pc = "none"
    /\ conversation_history = <<>>
    /\ ~buttons_enabled

\* the last step was a run of the worker for a Response Formulator request
\* with the remote model library installed
FormulatorRan ==
    /\ last_call.op = "worker"
    /\ last_call.task = "formulate_answer_from_data"
    /\ last_call.available

\* a remote call failed: it raised, or it answered with an error object
CallFailed(reply) ==
    \/ reply.kind = "raise"
    \/ reply.kind = "object" /\ reply.obj.error \notin {NULL, ""}

\* what a remote call that did not fail answered
CallAnswer(reply) == IF reply.kind = "object" THEN reply.obj ELSE Str(reply.text)

\* C25: in the Response Formulator, when stage A (summarize) succeeds and
\* stage B (enrich) fails or errors, the formulator returns intent = answer
\* with the stage-A answer, unchanged, as payload; a stage-B failure never
\* makes it return intent = error.
C25_EnrichFailureFallsBack ==
    (FormulatorRan /\ ~CallFailed(last_call.remote.summarize)
                   /\ CallFailed(last_call.remote.enrich))
    => /\ last_call.res.result.intent = "answer"
       /\ last_call.res.result.payload = CallAnswer(last_call.remote.summarize)
       /\ last_call.res.calls = <<"summarize", "enrich">>

\* the summary was given, the enrichment call raised, and the summary is the
\* answer
C25_Witness ==
    /\ FormulatorRan
    /\ last_call.remote.summarize = TextReply("Plants make sugar")
    /\ last_call.remote.enrich = Raises
    /\ last_call.res.result = [intent |-> "answer", payload |-> Str("Plants make sugar")]

\* C26: the Response Formulator returns intent = answer with a plain-text
\* payload whatever the outcomes of its two remote calls are.
C26_FormulatorAlwaysAnswers ==
    FormulatorRan
    => /\ last_call.res.result.intent = "answer"
       /\ last_call.res.result.payload.ty = "str"

\* the last step was a run of the worker for a Command Parser request whose
\* history ends in a user message
ParserRan ==
    /\ last_call.op = "worker"
    /\ last_call.task = "parse_command"
    /\ last_call.history # <<>>
    /\ last_call.history[Len(last_call.history)].role = "user"

\* the user messages that hold a word of the fixed vocabulary ("income") or
\* one of its word pairs ("to you")
KeywordMessages == {<<"Income", "1500", "from", "Ram">>, <<"thanks", "to", "you">>}

\* C27: when the utterance matches one of the fixed keyword patterns no
\* remote classification call is made: the one remote call of the run is the
\* Command Parser's, and what the run returns and prints is the same whatever
\* the remote classifier would have answered, reachable or not.
C27_KeywordShortCircuit ==
    (ParserRan /\ last_call.history[Len(last_call.history)].content \in KeywordMessages)
    => /\ last_call.res.calls = <<"parse">>
       /\ \A c \in RemoteReplies :
             main(last_call.task, last_call.history, last_call.available,
                  [last_call.remote EXCEPT !.classify = c]) = last_call.res

\* "Income 1500 from Ram" became a transaction Command while the classifier
\* could not be reached
C27_Witness ==
    /\ ParserRan
    /\ last_call.available
    /\ last_call.history = <<HistoryTurn("user", <<"Income", "1500", "from", "Ram">>)>>
    /\ last_call.remote.classify = Raises
    /\ last_call.remote.parse = ObjectReply(Dict(NULL, NULL, "transaction", "PAYLOAD"))
    /\ last_call.res.result.intent = "transaction"

\* the remote classifier's answer is an error, or a structured object that is
\* not the business marker
ClassifierErrorOrMalformed ==
    \/ ~last_call.available
    \/ CallFailed(last_call.remote.classify)
    \/ /\ last_call.remote.classify.kind = "object"
       /\ last_call.remote.classify.obj.business_intent # "needs_business_processing"

\* C28: on the classifier's slow path (no keyword pattern matches), a remote
\* answer that is an error or a structured object other than the business
\* marker makes the run return intent = error, which is also the intent the
\* Orchestrator receives; no category is guessed and the Command Parser is
\* not called.
C28_SlowPathErrorPropagated ==
    (ParserRan /\ last_call.history[Len(last_call.history)].content \notin KeywordMessages
               /\ ClassifierErrorOrMalformed)
    => /\ last_call.res.result.intent = "error"
       /\ response_data(last_call.res).intent = "error"
       /\ last_call.res.calls = <<"classify">>

\* "hi" was answered by the remote classifier with an object that carries an
\* intent but is not the business marker, and the run returned an error
C28_Witness ==
    /\ ParserRan
    /\ last_call.available
    /\ last_call.history = <<HistoryTurn("user", <<"hi">>)>>
    /\ last_call.remote.classify = ObjectReply(Dict(NULL, NULL, "transaction", "PAYLOAD"))
    /\ last_call.res.result = [intent |-> "error", payload |-> Str("unexpected_format")]
    /\ last_call.res.stdout = <<"json">>

\* the remote answer to the Command Parser is a single structured object
\* with both an intent and a payload field
WellFormedCommand(reply) ==
    /\ reply.kind = "object"
    /\ reply.obj.intent # NULL
    /\ reply.obj.payload # NULL

\* C29: the Command Parser returns intent = error whenever the remote answer
\* is not a single structured object with both an intent and a payload field
\* (an object with intent and no payload, a non-object, unparseable text).
C29_ParserRejectsOtherShapes ==
    (ParserRan /\ last_call.available
               /\ last_call.res.calls # <<>>
               /\ last_call.res.calls[Len(last_call.res.calls)] = "parse"
               /\ ~WellFormedCommand(last_call.remote.parse))
    => last_call.res.result.intent = "error"

\* a remote call made by the run raised
TransportFailed ==
    \E k \in 1..Len(last_call.res.calls) :
        last_call.remote[last_call.res.calls[k]].kind = "raise"

\* C30: for every request, with the remote model library installed, the
\* worker writes exactly one structured {intent, payload} object to its
\* response channel and nothing else, so a
\* transport failure of a remote call reaches the Orchestrator as
\* intent = error with the transport diagnostic.
C30_OneObjectOnResponseChannel ==
    (last_call.op = "worker" /\ last_call.available)
    => /\ last_call.res.stdout = <<"json">>
       /\ response_data(last_call.res) = last_call.res.result
       /\ (TransportFailed /\ last_call.res.result.intent = "error")
          => response_data(last_call.res).payload = Str("transport")

\* C31: when the worker writes any text to stderr, the Orchestrator takes the
\* whole call as failed: the Command it hands to handle_llm_response is
\* intent = error whatever the worker wrote on stdout, and handling that
\* Command changes no ledger, with or without a last transaction and
\* edit-mode.
C31_StderrFailsTheCall ==
    (last_call.op = "worker" /\ last_call.stderr # <<>>)
    => /\ last_call.command.intent = "error"
       /\ \A D \in QueryLedgers, ltid \in 0..MaxRows, edit \in BOOLEAN :
             HandleBranch(Command(last_call.command.intent, NoPayload, NoFilter),
                          ltid, edit, D, "free", today).db = D

\* the worker printed a transaction Command and a warning on stderr, and the
\* Orchestrator has an error
C31_Witness ==
    /\ last_call.op = "worker"
    /\ last_call.stderr # <<>>
    /\ last_call.res.stdout = <<"json">>
    /\ last_call.res.result.intent = "transaction"
    /\ last_call.command.intent = "error"

\* the histories a request must not have: none, or one whose last turn is
\* not the user's; here the request's own history without its last turn
WithoutLastTurn(h) == SubSeq(h, 1, Len(h) - 1)

\* C32: every request sent to the worker carries a history that ends with a
\* user-role turn holding the current utterance and has at most 7 entries
\* (the session history of at most 6, and the current turn); and a
\* parse_command request whose history is empty or does not end in a user
\* turn is answered with intent = error without any remote call, whatever
\* the remote model would answer.
C32_RequestHistoryEndsInUserTurn ==
    \A w \in inflight :
        /\ Len(w.history) >= 1
        /\ Len(w.history) <= HistoryWindow + 1
        /\ w.history[Len(w.history)].role = "user"
        /\ w.history[Len(w.history)].msg = w.msg
        /\ LET bad == WithoutLastTurn(w.history)
           IN (bad = <<>> \/ bad[Len(bad)].role # "user")
              => \A available \in BOOLEAN, remote \in Remotes :
                    /\ main("parse_command", bad, available, remote).result.intent = "error"
                    /\ main("parse_command", bad, available, remote).calls = <<>>

\* a request is with its worker in a session of three earlier exchanges:
\* seven entries, the last one the user's
C32_Witness ==
    \E w \in inflight :
        /\ Len(w.history) = 7
        /\ w.history[7] = UserTurn(w.msg)
        /\ w.history[6].role = "assistant"

\* C33: no thread ever tries to acquire the non-reentrant db_lock while it
\* holds it: in no reachable state is the UI thread waiting for db_lock held
\* by the UI thread, or a demo-data thread waiting for db_lock held by the
\* demo-data thread.
C33_NoSelfAcquire ==
    /\ ~(ui_pc = "blocked" /\ db_lock = "ui")
    /\ \A t \in 1..Len(demo) : ~(demo[t].pc = "blocked" /\ db_lock = "demo")

\* C34: a mutating store call (insert, update, deleteScope) made while no
\* other connection is in the way on any attempt never reports lock-busy:
\* the DailyInsight recompute inside it does not wait for the call's own
\* uncommitted transaction, so the call is over on its first attempt.
C34_UncontendedCallNeverLockBusy ==
    (/\ last_call.op \in {"insert", "update", "delete"}
     /\ last_call.sched = NoFaults)
    => /\ last_call.res.err # "locked"
       /\ last_call.res.attempts <= 1

\* the row last_transaction_id points at, as a set of at most one row
PointedRows == {k \in 1..Len(db.rows) : db.rows[k].id = last_transaction_id}

AssistantReplies(b) ==
    b.replies + (IF b.kind \in {"ok", "raised"} THEN 1 ELSE 0)

\* C37: each accepted utterance has produced exactly one assistant reply by
\* the time the Orchestrator is Idle again: a run of handle_llm_response that
\* leaves the Orchestrator Idle has added exactly one reply, never none (a
\* database_query with rows) and never two (a database_query without rows).
C37_ExactlyOneReply ==
    [][(HandleLlmResponse /\ ui_pc' = "mainloop" /\ ~is_processing')
        => AssistantReplies(HandledBranch) = 1]_vars

\* C38: edit-mode lasts for exactly one request: a run of handle_llm_response
\* that completes with edit-mode set leaves it cleared, whatever the intent
\* of the Command; and edit-mode set implies last_transaction_id is non-null.
C38_EditModeLastsOneRequest ==
    /\ [](is_edit_mode => last_transaction_id # 0)
    /\ [][(HandleLlmResponse /\ is_edit_mode /\ ui_pc' = "mainloop") => ~is_edit_mode']_vars

\* an error of the store that is not lock-busy: ValueError (insert without
\* type or amount), IntegrityError, AttributeError
OtherStoreErrors == {"value", "integrity", "attribute"}

\* the number of leading attempts of a schedule on which the call's own
\* statement finds the database locked
LeadingWriteLocks(sched) ==
    Cardinality({i \in 1..SchedLen : \A j \in 1..i : sched[j] = "lock_write"})

\* a step of the store specification that is a call of insert, update or
\* deleteScope
MutatingCall == today' = today /\ last_call'.op \in {"insert", "update", "delete"}

\* C39: only lock-busy errors are retried.  An insert, update or deleteScope
\* that ends in any other store error (insert's missing-type-or-amount error
\* included) raised it on the attempt where it occurred, the first one that
\* did not meet lock-busy, made no attempt after it, and left the ledger as
\* it was.
C39_OtherErrorsNotRetried ==
    [][(MutatingCall /\ last_call'.res.err \in OtherStoreErrors)
        => /\ ~last_call'.res.ok
           /\ last_call'.res.attempts <= RetryRange
           /\ last_call'.res.attempts
                = 1 + (IF last_call'.res.err = "integrity"
                       THEN LeadingWriteLocks(last_call'.sched) ELSE 0)
           /\ db' = db]_vars

\* an insert refused by the CHECK constraint on its third attempt, after two
\* attempts that met lock-busy, on a ledger that holds rows
C39_Witness ==
    /\ last_call.op = "insert"
    /\ last_call.res.err = "integrity"
    /\ last_call.res.attempts = 3
    /\ db.rows # <<>>
====
